---- MODULE Spec2Model ----
(***************************************************************************)
(* Caption-Validator: the coverage engine (internal/validator/coverage.go) *)
(* and the line-oriented caption parsers (internal/parser).                *)
(*                                                                         *)
(* Numbers.  The Go code computes in float64.  The model computes in exact *)
(* integer arithmetic on fixed units:                                      *)
(*   - a time (StartTime, EndTime, startTime, endTime, totalTime,          *)
(*     coveredTime, start_time, end_time, total_time) is a whole number of *)
(*     milliseconds;                                                       *)
(*   - a percentage argument (minCoverage, required_coverage) is a whole   *)
(*     number of hundredths of a percent (66.6 is 6660);                   *)
(*   - a field the code rounds to two decimals (actual_coverage,           *)
(*     covered_time, missing_coverage_seconds) is the whole number of      *)
(*     hundredths that math.Round(x*100) yields, i.e. hundredths of a      *)
(*     percent resp. hundredths of a second.                               *)
(* coveragePercent itself is never stored: it is the rational              *)
(* coveredTime*100/totalTime, and every use of it is cross-multiplied.     *)
(***************************************************************************)
EXTENDS Integers, Sequences, FiniteSets, TLC

VARIABLES
    captions,         \* []parser.Caption: ValidateCoverage's argument
    startTime,        \* ValidateCoverage's argument, ms
    endTime,          \* ValidateCoverage's argument, ms
    minCoverage,      \* ValidateCoverage's argument, hundredths of a percent
    pc,               \* position inside ValidateCoverage
    totalTime,        \* coverage.go:44
    coveredSegments,  \* coverage.go:51
    i,                \* loop index of the collecting loop (54) and of the sweep (80), 1-based
    merged,           \* coverage.go:79
    coveredTime,      \* coverage.go:99
    result,           \* the returned ValidationResult
    err,              \* the returned error: "" is nil
    input,            \* the Scan events the parsers have consumed, in order
    feed,             \* where the next event comes from: any line, or a script
    vtt,              \* the locals of parseWebVTT and of parseChunkedWebVTT
    srt,              \* the locals of parseSRT and of parseChunkedSRT
    file,             \* the file behind filePath: extension, `file` output, lines
    call,             \* the locals of ParseCaptionsFile and of ParseLargeCaptionsFile
    args,             \* what main is given: flags, the parse outcome, the API's answer
    mainpc,           \* position inside main
    plainText,        \* main.go:87
    hasFailures,      \* main.go:90
    stdout,           \* the objects written to stdout, in order
    exitCode,         \* the process exit code; -1 while main runs
    callers,          \* the calls running at the same time, each with its own locals
    timeCall          \* a call of a timestamp or timeline function: argument, result

covVars == <<captions, startTime, endTime, minCoverage, pc, totalTime,
             coveredSegments, i, merged, coveredTime, result, err>>

parVars == <<input, feed, vtt, srt>>

fileVars == <<file, call>>

cliVars == <<args, mainpc, plainText, hasFailures, stdout, exitCode>>

conVars == <<callers>>

timeVars == <<timeCall>>

vars == <<covVars, parVars, fileVars, cliVars, conVars, timeVars>>

-----------------------------------------------------------------------------
(* Bounds of the explored inputs. *)

MaxCaptions == 2
MaxTime == 3
MaxLines == 5

\* Caption and window times of the enumerated inputs, in ms.
TimeGrid == {4 * k : k \in 0..MaxTime}

\* minCoverage values of the enumerated inputs, hundredths of a percent:
\* negative, zero, the two-decimal roundings of 1/3 and 2/3, 50%, 100%.
MinCoverages == {-100, 0, 3333, 5000, 6667, 10000}

-----------------------------------------------------------------------------
(* Values *)

Caption(index, start, end, text) ==
    [Index |-> index, StartTime |-> start, EndTime |-> end, Text |-> text]

timeSegment(start, end) == [start |-> start, end |-> end]

\* The zero value ValidationResult{} returned beside an error (coverage.go:40).
EmptyResult == [Valid |-> FALSE, Type |-> "", Data |-> <<>>]

Max(a, b) == IF a >= b THEN a ELSE b
Min(a, b) == IF a <= b THEN a ELSE b

\* math.Round(n/d) for d > 0: nearest integer, halves away from zero.
RoundHalfDown(n, d) ==
    IF n >= 0 THEN n \div d ELSE -((-n) \div d)
RoundDiv(n, d) ==
    IF n >= 0 THEN (2 * n + d) \div (2 * d) ELSE -((2 * (-n) + d) \div (2 * d))

-----------------------------------------------------------------------------
(* ValidateCoverage, piece by piece *)

\* coverage.go:39
InvalidRangeStrict(s, e) == e < s
InvalidRange(s, e) == e <= s

\* coverage.go:56: the caption lies outside the window
NeverOutside(caption, s, e) == FALSE
OutsideRange(caption, s, e) == caption.EndTime <= s \/ caption.StartTime >= e

\* coverage.go:61-64
Clip(caption, s, e) ==
    timeSegment(Max(caption.StartTime, s), Min(caption.EndTime, e))

\* coverage.go:70-76: the exchange sort by start
Swap(a, m, n) == [a EXCEPT ![m] = a[n], ![n] = a[m]]

RECURSIVE InnerLoop(_, _, _)
InnerLoop(a, m, n) ==
    IF n > Len(a) THEN a
    ELSE InnerLoop(IF a[m].start > a[n].start THEN Swap(a, m, n) ELSE a, m, n + 1)

RECURSIVE OuterLoop(_, _)
OuterLoop(a, m) ==
    IF m > Len(a) - 1 THEN a ELSE OuterLoop(InnerLoop(a, m, m + 1), m + 1)

NoSort(a) == a
SortSegments(a) == OuterLoop(a, 1)


\* as if segments that touch were kept apart
OverlapsStrictly(current, last) == current.start < last.end
\* coverage.go:85
Overlaps(current, last) == current.start <= last.end

\* coverage.go:86-88
ExtendAlways(last, current) == [last EXCEPT !.end = current.end]
Extend(last, current) ==
    IF current.end > last.end THEN [last EXCEPT !.end = current.end] ELSE last

\* coverage.go:81-92: one iteration of the sweep
MergeOne(m, current) ==
    IF Overlaps(current, m[Len(m)])
    THEN [m EXCEPT ![Len(m)] = Extend(m[Len(m)], current)]
    ELSE Append(m, current)

\* coverage.go:99-102
RECURSIVE SumSegments(_)
SumSegments(segs) ==
    IF segs = <<>> THEN 0
    ELSE (Head(segs).end - Head(segs).start) + SumSegments(Tail(segs))

\* coverage.go:105,108: coveragePercent >= minCoverage, cross-multiplied by
\* totalTime > 0 and by the 100 of minCoverage's unit
IsValidStrict(covered, total, minCov) == covered * 10000 > minCov * total
IsValid(covered, total, minCov) == covered * 10000 >= minCov * total

\* coverage.go:115: math.Round(coveragePercent*100), hundredths of a percent
ActualCoverageTruncated(covered, total) == RoundHalfDown(covered * 10000, total)
ActualCoverage(covered, total) == RoundDiv(covered * 10000, total)

\* coverage.go:118: math.Round(coveredTime*100), hundredths of a second
CoveredTimeField(covered) == RoundDiv(covered, 10)

\* coverage.go:124: math.Round(((minCoverage/100)*totalTime-coveredTime)*100),
\* hundredths of a second
MissingCoverageSwapped(covered, total, minCov) ==
    RoundDiv(10000 * covered - minCov * total, 100000)
MissingCoverage(covered, total, minCov) ==
    RoundDiv(minCov * total - 10000 * covered, 100000)

BaseFields == {"required_coverage", "actual_coverage", "start_time",
               "end_time", "covered_time", "total_time"}

\* coverage.go:113-120
BaseData(s, e, total, covered, minCov) ==
    [k \in BaseFields |->
        CASE k = "required_coverage" -> minCov
          [] k = "actual_coverage"   -> ActualCoverage(covered, total)
          [] k = "start_time"        -> s
          [] k = "end_time"          -> e
          [] k = "covered_time"      -> CoveredTimeField(covered)
          [] k = "total_time"        -> total]

WithMissing(data, total, covered, minCov) ==
    [k \in DOMAIN data \cup {"missing_coverage_seconds"} |->
        IF k = "missing_coverage_seconds"
        THEN MissingCoverage(covered, total, minCov)
        ELSE data[k]]

\* coverage.go:108-127
BuildResultAlwaysMissing(s, e, total, covered, minCov) ==
    [Valid |-> IsValid(covered, total, minCov),
     Type  |-> "caption_coverage",
     Data  |-> WithMissing(BaseData(s, e, total, covered, minCov), total, covered, minCov)]
BuildResult(s, e, total, covered, minCov) ==
    LET valid == IsValid(covered, total, minCov)
        data  == BaseData(s, e, total, covered, minCov)
    IN  [Valid |-> valid,
         Type  |-> "caption_coverage",
         Data  |-> IF ~valid THEN WithMissing(data, total, covered, minCov) ELSE data]

-----------------------------------------------------------------------------
(***************************************************************************)
(* The parsers.  A string is the sequence of its characters, so that       *)
(* strings.HasPrefix, Contains, TrimSpace, Split, Replace, Join and the    *)
(* strconv conversions are computed on the text itself.  A parsed time is  *)
(* a whole number of milliseconds.                                         *)
(***************************************************************************)

Digits == {"0", "1", "2", "3", "4", "5", "6", "7", "8", "9"}

DigitValue(c) ==
    CASE c = "0" -> 0 [] c = "1" -> 1 [] c = "2" -> 2 [] c = "3" -> 3
      [] c = "4" -> 4 [] c = "5" -> 5 [] c = "6" -> 6 [] c = "7" -> 7
      [] c = "8" -> 8 [] c = "9" -> 9

\* The white space of strings.TrimSpace that the inputs can hold.
WhiteSpace == {" ", "\t", "\r", "\n"}

Arrow == <<"-", "-", ">">>
Signature == <<"W", "E", "B", "V", "T", "T">>

\* strings.HasPrefix
HasPrefix(s, prefix) ==
    Len(s) >= Len(prefix) /\ SubSeq(s, 1, Len(prefix)) = prefix

\* strings.Index, 1-based; 0 when substr does not occur
Occurrences(s, substr) ==
    {k \in 1..(Len(s) - Len(substr) + 1) : SubSeq(s, k, k + Len(substr) - 1) = substr}

Least(ks) == IF ks = {} THEN 0 ELSE CHOOSE k \in ks : \A m \in ks : k <= m

IndexOf(s, substr) == Least(Occurrences(s, substr))

\* strings.Contains
Contains(s, substr) == Occurrences(s, substr) # {}

\* strings.Split for a non-empty separator; k is the first occurrence of sep
RECURSIVE Split(_, _)
RECURSIVE SplitAt(_, _, _)
SplitAt(s, sep, k) ==
    IF k = 0 THEN <<s>>
    ELSE <<SubSeq(s, 1, k - 1)>> \o Split(SubSeq(s, k + Len(sep), Len(s)), sep)

Split(s, sep) == SplitAt(s, sep, IndexOf(s, sep))

\* strings.TrimSpace
RECURSIVE TrimLeft(_)
TrimLeft(s) ==
    IF s # <<>> /\ Head(s) \in WhiteSpace THEN TrimLeft(Tail(s)) ELSE s

RECURSIVE TrimRight(_)
TrimRight(s) ==
    IF s # <<>> /\ s[Len(s)] \in WhiteSpace
    THEN TrimRight(SubSeq(s, 1, Len(s) - 1))
    ELSE s

TrimSpace(s) == TrimRight(TrimLeft(s))

\* strings.Replace(s, old, new, 1); k is the first occurrence of old
ReplaceAt(s, old, new, k) ==
    IF k = 0 THEN s
    ELSE SubSeq(s, 1, k - 1) \o new \o SubSeq(s, k + Len(old), Len(s))

ReplaceFirst(s, old, new) == ReplaceAt(s, old, new, IndexOf(s, old))

\* strings.Join
RECURSIVE Join(_, _)
Join(elems, sep) ==
    IF elems = <<>> THEN <<>>
    ELSE IF Len(elems) = 1 THEN elems[1]
    ELSE elems[1] \o sep \o Join(Tail(elems), sep)

RECURSIVE Number(_)
Number(ds) ==
    IF ds = <<>> THEN 0
    ELSE 10 * Number(SubSeq(ds, 1, Len(ds) - 1)) + DigitValue(ds[Len(ds)])

AllDigits(s) == \A k \in DOMAIN s : s[k] \in Digits

ErrSyntax == "invalid syntax"

Failed(e) == [err |-> e, val |-> 0]
Value(v) == [err |-> "", val |-> v]

\* strconv.Atoi: an optional sign and decimal digits.
Signed(s, body) ==
    IF body # <<>> /\ AllDigits(body)
    THEN Value(IF Head(s) = "-" THEN -Number(body) ELSE Number(body))
    ELSE Failed(ErrSyntax)

Atoi(s) == Signed(s, IF s # <<>> /\ Head(s) \in {"+", "-"} THEN Tail(s) ELSE s)

\* strconv.ParseFloat(s, 64) on the decimal notations the inputs hold: digits
\* with an optional fraction of at most three digits, "5." and ".5" included.
\* The value is in thousandths.
Decimal(whole, frac) ==
    IF /\ AllDigits(whole) /\ AllDigits(frac)
       /\ Len(whole) + Len(frac) >= 1
       /\ Len(frac) <= 3
    THEN Value(1000 * Number(whole) + Number(SubSeq(frac \o <<"0", "0", "0">>, 1, 3)))
    ELSE Failed(ErrSyntax)

DecimalParts(parts) ==
    IF Len(parts) = 1 THEN Decimal(parts[1], <<>>)
    ELSE IF Len(parts) = 2 THEN Decimal(parts[1], parts[2])
    ELSE Failed(ErrSyntax)

ErrRange == "value out of range"

RECURSIVE PowerOfTen(_)
PowerOfTen(n) == IF n = 0 THEN 1 ELSE 10 * PowerOfTen(n - 1)

\* A decimal mantissa times a power of ten.  A mantissa that is not zero is
\* at least 0.001: with an exponent over 311 the value is over 1e308, the
\* largest power of ten a float64 holds, and ParseFloat returns ErrRange.
Scaled(mantissa, exponent) ==
    IF mantissa.err # "" \/ exponent.err # "" THEN Failed(ErrSyntax)
    ELSE IF mantissa.val = 0 THEN Value(0)
    ELSE IF exponent.val > 311 THEN Failed(ErrRange)
    ELSE IF exponent.val >= 0 THEN Value(mantissa.val * PowerOfTen(exponent.val))
    ELSE Value(mantissa.val \div PowerOfTen(-exponent.val))

ExponentParts(parts) ==
    IF Len(parts) # 2 THEN Failed(ErrSyntax)
    ELSE Scaled(DecimalParts(Split(parts[1], <<".">>)), Atoi(parts[2]))

\* strconv.ParseFloat(s, 64): the decimal notations above, with an optional
\* decimal exponent after "e" or "E"
ParseFloat(s) ==
    IF Contains(s, <<"e">>) THEN ExponentParts(Split(s, <<"e">>))
    ELSE IF Contains(s, <<"E">>) THEN ExponentParts(Split(s, <<"E">>))
    ELSE DecimalParts(Split(s, <<".">>))


\* as if an hour had sixty seconds
HoursAsMinutes(hours, minutes, seconds) ==
    IF hours.err # "" THEN Failed(hours.err)
    ELSE IF minutes.err # "" THEN Failed(minutes.err)
    ELSE IF seconds.err # "" THEN Failed(seconds.err)
    ELSE Value(hours.val * 60 + minutes.val * 60 + seconds.val)
\* part_004:139-154, srt.go:137-152: the first conversion that fails is
\* returned, else hours*3600 + minutes*60 + seconds
HoursMinutesSeconds(hours, minutes, seconds) ==
    IF hours.err # "" THEN Failed(hours.err)
    ELSE IF minutes.err # "" THEN Failed(minutes.err)
    ELSE IF seconds.err # "" THEN Failed(seconds.err)
    ELSE Value(hours.val * 3600 + minutes.val * 60 + seconds.val)

\* part_004:157-167
MinutesSeconds(minutes, seconds) ==
    IF minutes.err # "" THEN Failed(minutes.err)
    ELSE IF seconds.err # "" THEN Failed(seconds.err)
    ELSE Value(minutes.val * 60 + seconds.val)

\* part_004:134-170
WebVTTTimestampParts(parts) ==
    IF Len(parts) = 3
    THEN HoursMinutesSeconds(ParseFloat(parts[1]), ParseFloat(parts[2]), ParseFloat(parts[3]))
    ELSE IF Len(parts) = 2
    THEN MinutesSeconds(ParseFloat(parts[1]), ParseFloat(parts[2]))
    ELSE Failed("invalid timestamp format")

\* part_004:131-171
parseWebVTTTimestamp(timestamp) == WebVTTTimestampParts(Split(timestamp, <<":">>))

NoTimes(e) == [err |-> e, start |-> 0, end |-> 0]

\* part_004:116-126, srt.go:113-123
StartAndEnd(startTime_, endTime_) ==
    IF startTime_.err # "" THEN NoTimes(startTime_.err)
    ELSE IF endTime_.err # "" THEN NoTimes(endTime_.err)
    ELSE [err |-> "", start |-> startTime_.val, end |-> endTime_.val]

\* part_004:105-126
WebVTTTimelineParts(parts) ==
    IF Len(parts) # 2 THEN NoTimes("invalid time format")
    ELSE StartAndEnd(parseWebVTTTimestamp(TrimSpace(parts[1])),
                     parseWebVTTTimestamp(Split(TrimSpace(parts[2]), <<" ">>)[1]))

\* part_004:99-127
parseWebVTTTimeline(line) == WebVTTTimelineParts(Split(TrimSpace(line), Arrow))

\* srt.go:133-152
SRTTimestampParts(parts) ==
    IF Len(parts) # 3 THEN Value(0)
    ELSE HoursMinutesSeconds(ParseFloat(parts[1]), ParseFloat(parts[2]), ParseFloat(parts[3]))

\* srt.go:128-153
parseSRTTimestamp(timestamp) ==
    SRTTimestampParts(Split(ReplaceFirst(timestamp, <<",">>, <<".">>), <<":">>))

\* srt.go:105-123
SRTTimelineParts(parts) ==
    IF Len(parts) # 2 THEN NoTimes("")
    ELSE StartAndEnd(parseSRTTimestamp(TrimSpace(parts[1])),
                     parseSRTTimestamp(TrimSpace(parts[2])))

\* srt.go:99-124
parseSRTTimeline(line) == SRTTimelineParts(Split(TrimSpace(line), Arrow))

-----------------------------------------------------------------------------
(***************************************************************************)
(* The input stream as bufio.Scanner delivers it.  An event is one call of *)
(* scanner.Scan(): a line within the token limit ("line": Scan returns     *)
(* true and Text() is the line without its terminator), a physical line    *)
(* longer than the 64KB token limit ("long": Scan returns false and Err()  *)
(* is ErrTooLong), or the end of the input ("eof": Scan returns false and  *)
(* Err() is nil).  parseWebVTT and parseSRT use the scanner's default      *)
(* limit, bufio.MaxScanTokenSize = 64*1024; the chunked parsers set the    *)
(* same limit explicitly (large_parser.go:47-48, 133-134).                 *)
(***************************************************************************)

Line(text) == [kind |-> "line", text |-> text]
Overlong(text) == [kind |-> "long", text |-> text]
EndOfInput == [kind |-> "eof", text |-> <<>>]

\* scanner.Scan()
ScanOK(ev) == ev.kind = "line"

ErrTooLong == "bufio.Scanner: token too long"

\* scanner.Err() once Scan has returned false
ScanErr(ev) == IF ev.kind = "long" THEN ErrTooLong ELSE ""

NewLine == <<"\n">>

Return(st, caps, e) == [st EXCEPT !.phase = "returned", !.ret = caps, !.err = e]

-----------------------------------------------------------------------------
(* parseWebVTT (part_004:12-95) and parseChunkedWebVTT                      *)
(* (large_parser.go:44-127).  The two bodies are the same statements but    *)
(* for the error returned when the first Scan fails.                        *)

WebVTTStart ==
    [phase |-> "header", captions |-> <<>>, currentCaption |-> Caption(0, 0, 0, <<>>),
     inCaption |-> FALSE, textLines |-> <<>>, index |-> 1, ret |-> <<>>, err |-> ""]

\* part_004:21
HeaderAnywhere(text) == Contains(text, Signature)
HeaderPresent(text) == HasPrefix(text, Signature)

\* part_004:16-23
WebVTTHeader(st, ev, emptyErr) ==
    IF ~ScanOK(ev) THEN Return(st, <<>>, emptyErr)
    ELSE IF ~HeaderPresent(ev.text) THEN Return(st, <<>>, "missing WEBVTT header")
    ELSE [st EXCEPT !.phase = "preamble"]

\* part_004:44-46, 58-60, 85-87: the pending cue is completed and appended
Appended(st, caption) ==
    [st EXCEPT !.currentCaption = caption, !.captions = Append(st.captions, caption)]

WebVTTFinalize(st) ==
    Appended(st, [st.currentCaption EXCEPT !.Text = Join(st.textLines, NewLine),
                                           !.Index = st.index])


\* as if an empty line completed the pending cue only when it has text
WebVTTEmptyLineNeedsText(st) ==
    IF st.inCaption /\ st.textLines # <<>>
    THEN [WebVTTFinalize(st) EXCEPT !.textLines = <<>>,
                                    !.index = st.index + 1,
                                    !.inCaption = FALSE]
    ELSE [st EXCEPT !.inCaption = FALSE]
\* part_004:42-52: an empty line
WebVTTEmptyLine(st) ==
    IF st.inCaption
    THEN [WebVTTFinalize(st) EXCEPT !.textLines = <<>>,
                                    !.index = st.index + 1,
                                    !.inCaption = FALSE]
    ELSE st


\* as if the text lines of the completed cue were kept for the next one
WebVTTFlushKeepsText(st) ==
    IF st.inCaption THEN [WebVTTFinalize(st) EXCEPT !.index = st.index + 1] ELSE st
\* part_004:56-63: a timeline while a cue is pending
WebVTTFlushKeepsIndex(st) ==
    IF st.inCaption THEN [WebVTTFinalize(st) EXCEPT !.textLines = <<>>] ELSE st

WebVTTFlush(st) ==
    IF st.inCaption
    THEN [WebVTTFinalize(st) EXCEPT !.textLines = <<>>, !.index = st.index + 1]
    ELSE st

\* part_004:66-75
WebVTTStartCue(st, tl) ==
    IF tl.err # "" THEN Return(st, <<>>, tl.err)
    ELSE [st EXCEPT !.currentCaption = Caption(0, tl.start, tl.end, <<>>),
                    !.inCaption = TRUE]

\* part_004:38-81: the body of the cue loop for one line
WebVTTCueLine(st, line) ==
    IF line = <<>> THEN WebVTTEmptyLine(st)
    ELSE IF Contains(line, Arrow)
    THEN WebVTTStartCue(WebVTTFlush(st), parseWebVTTTimeline(line))
    ELSE IF st.inCaption THEN [st EXCEPT !.textLines = Append(st.textLines, line)]
    ELSE st

\* part_004:90-94: scanner.Err() decides what is returned
ReturnScanned(st, ev) ==
    IF ScanErr(ev) # "" THEN Return(st, <<>>, ScanErr(ev))
    ELSE Return(st, st.captions, "")

\* part_004:83-94: Scan returned false
WebVTTFinishDropsPending(st, ev) == ReturnScanned(st, ev)
WebVTTFinish(st, ev) ==
    ReturnScanned(IF st.inCaption THEN WebVTTFinalize(st) ELSE st, ev)

\* part_004:25-30: the lines up to the first empty line are skipped
WebVTTPreamble(st, ev) ==
    IF ~ScanOK(ev) THEN WebVTTFinish(st, ev)
    ELSE IF ev.text = <<>> THEN [st EXCEPT !.phase = "cues"]
    ELSE st

\* One call of scanner.Scan() and what the parser does with it.
WebVTTStep(st, ev, emptyErr) ==
    CASE st.phase = "header" -> WebVTTHeader(st, ev, emptyErr)
      [] st.phase = "preamble" -> WebVTTPreamble(st, ev)
      [] st.phase = "cues" ->
            IF ~ScanOK(ev) THEN WebVTTFinish(st, ev)
            ELSE WebVTTCueLine(st, ev.text)
      [] OTHER -> st

parseWebVTT(st, ev) == WebVTTStep(st, ev, "empty file")
parseChunkedWebVTT(st, ev) == WebVTTStep(st, ev, "EOF")

-----------------------------------------------------------------------------
(* parseSRT (srt.go:11-95) and parseChunkedSRT (large_parser.go:130-214):   *)
(* the same statements.                                                     *)

SRTStart ==
    [phase |-> "scan", captions |-> <<>>, currentCaption |-> Caption(0, 0, 0, <<>>),
     textLines |-> <<>>, parseState |-> 0, ret |-> <<>>, err |-> ""]

\* srt.go:28-29, 86-87: the pending cue is completed and appended
SRTFinalize(st) ==
    Appended(st, [st.currentCaption EXCEPT !.Text = Join(st.textLines, NewLine)])


\* as if a blank line completed the pending cue whether or not it has text
SRTBlankLineAlwaysAppends(st) ==
    IF st.parseState > 0
    THEN [SRTFinalize(st) EXCEPT !.textLines = <<>>, !.parseState = 0]
    ELSE st
\* srt.go:24-35: a blank line
SRTBlankLine(st) ==
    IF st.parseState > 0
    THEN IF Len(st.textLines) > 0
         THEN [SRTFinalize(st) EXCEPT !.textLines = <<>>, !.parseState = 0]
         ELSE [st EXCEPT !.parseState = 0]
    ELSE st

\* srt.go:51-57: text of a previous caption with a missing blank line
SRTLooseText(st, line) ==
    IF Len(st.captions) > 0
    THEN [st EXCEPT !.parseState = 2, !.textLines = Append(st.textLines, line)]
    ELSE st



\* as if a timeline that fails to parse where an index is expected failed
\* the parse
SRTIndexlessFails(st, line, tl) ==
    IF tl.err = ""
    THEN [st EXCEPT !.currentCaption = Caption(Len(st.captions) + 1, tl.start, tl.end, <<>>),
                    !.parseState = 2]
    ELSE Return(st, <<>>, tl.err)
\* as if the index of an index-less cue were the number of captions so far
SRTIndexlessCountsFromZero(st, line, tl) ==
    IF tl.err = ""
    THEN [st EXCEPT !.currentCaption = Caption(Len(st.captions), tl.start, tl.end, <<>>),
                    !.parseState = 2]
    ELSE SRTLooseText(st, line)
\* srt.go:44-49: a timeline where an index was expected
SRTIndexless(st, line, tl) ==
    IF tl.err = ""
    THEN [st EXCEPT !.currentCaption = Caption(Len(st.captions) + 1, tl.start, tl.end, <<>>),
                    !.parseState = 2]
    ELSE SRTLooseText(st, line)

\* srt.go:39-61: index is the result of strconv.Atoi(trimmedLine)
SRTIndexed(st, line, trimmedLine, index) ==
    IF index.err # "" THEN
        IF Contains(trimmedLine, Arrow)
        THEN SRTIndexless(st, line, parseSRTTimeline(trimmedLine))
        ELSE SRTLooseText(st, line)
    ELSE [st EXCEPT !.currentCaption = Caption(index.val, 0, 0, <<>>),
                    !.parseState = 1]

\* srt.go:38-61: case 0, an index is expected
SRTExpectIndex(st, line, trimmedLine) ==
    SRTIndexed(st, line, trimmedLine, Atoi(trimmedLine))

\* srt.go:65-72
SRTTimedPartial(st, tl) ==
    IF tl.err # "" THEN Return(st, st.captions, tl.err)
    ELSE [st EXCEPT !.currentCaption.StartTime = tl.start,
                    !.currentCaption.EndTime = tl.end,
                    !.parseState = 2,
                    !.textLines = <<>>]

SRTTimed(st, tl) ==
    IF tl.err # "" THEN Return(st, <<>>, tl.err)
    ELSE [st EXCEPT !.currentCaption.StartTime = tl.start,
                    !.currentCaption.EndTime = tl.end,
                    !.parseState = 2,
                    !.textLines = <<>>]


\* as if a line without the arrow after an index line were refused
SRTExpectTimelineStrict(st, line, trimmedLine) ==
    IF Contains(trimmedLine, Arrow)
    THEN SRTTimed(st, parseSRTTimeline(trimmedLine))
    ELSE Return(st, <<>>, "invalid timeline format")
\* srt.go:63-77: case 1, a timeline is expected
SRTExpectTimeline(st, line, trimmedLine) ==
    IF Contains(trimmedLine, Arrow)
    THEN SRTTimed(st, parseSRTTimeline(trimmedLine))
    ELSE [st EXCEPT !.textLines = Append(st.textLines, line), !.parseState = 2]


\* as if a line with the arrow read as caption text had to parse as a timeline
SRTTextChecked(st, line) ==
    IF Contains(line, Arrow) /\ parseSRTTimeline(TrimSpace(line)).err # ""
    THEN Return(st, <<>>, parseSRTTimeline(TrimSpace(line)).err)
    ELSE [st EXCEPT !.textLines = Append(st.textLines, line)]
\* srt.go:79-80: case 2, caption text
SRTText(st, line) == [st EXCEPT !.textLines = Append(st.textLines, line)]

\* srt.go:21-81: the body of the loop for one line
SRTTrimmed(st, line, trimmedLine) ==
    IF trimmedLine = <<>> THEN SRTBlankLine(st)
    ELSE CASE st.parseState = 0 -> SRTExpectIndex(st, line, trimmedLine)
           [] st.parseState = 1 -> SRTExpectTimeline(st, line, trimmedLine)
           [] OTHER -> SRTText(st, line)

SRTLine(st, line) == SRTTrimmed(st, line, TrimSpace(line))

\* srt.go:84-94: Scan returned false
SRTFinish(st, ev) ==
    ReturnScanned(IF st.parseState > 0 /\ Len(st.textLines) > 0
                  THEN SRTFinalize(st) ELSE st, ev)

\* One call of scanner.Scan() and what the parser does with it.
SRTStep(st, ev) ==
    IF st.phase # "scan" THEN st
    ELSE IF ~ScanOK(ev) THEN SRTFinish(st, ev)
    ELSE SRTLine(st, ev.text)

parseSRT(st, ev) == SRTStep(st, ev)

parseChunkedSRTUntrimmed(st, ev) ==
    IF st.phase # "scan" THEN st
    ELSE IF ~ScanOK(ev) THEN SRTFinish(st, ev)
    ELSE SRTTrimmed(st, ev.text, ev.text)

parseChunkedSRT(st, ev) == SRTStep(st, ev)

-----------------------------------------------------------------------------
(* A parser called again on the lines it has read.  Every local of the four *)
(* parsers is declared inside the function (part_004:13-35, srt.go:12-17,   *)
(* large_parser.go:45-69, 131-139): a call starts from the same values      *)
(* whatever was parsed before.                                              *)

StepOf(p, st, ev) ==
    CASE p = "parseWebVTT" -> parseWebVTT(st, ev)
      [] p = "parseChunkedWebVTT" -> parseChunkedWebVTT(st, ev)
      [] p = "parseSRT" -> parseSRT(st, ev)
      [] p = "parseChunkedSRT" -> parseChunkedSRT(st, ev)

StartOf(p) ==
    IF p \in {"parseWebVTT", "parseChunkedWebVTT"} THEN WebVTTStart ELSE SRTStart

\* The start of a call if the captions slice outlived the call before.
StartWithCaptions(p) ==
    [StartOf(p) EXCEPT !.captions = <<Caption(1, 0, 0, <<>>)>>]

RECURSIVE ScanAll(_, _, _)
ScanAll(p, st, events) ==
    IF events = <<>> THEN st
    ELSE ScanAll(p, StepOf(p, st, Head(events)), Tail(events))

ReparseWithCaptions(p, events) == ScanAll(p, StartWithCaptions(p), events)
Reparse(p, events) == ScanAll(p, StartOf(p), events)

-----------------------------------------------------------------------------
(* The texts of the explored inputs *)

\* "WEBVTT"
TextHeader ==
    <<"W", "E", "B", "V", "T", "T">>

\* "WEBVTT - t"
TextHeaderTitled ==
    <<"W", "E", "B", "V", "T", "T", " ", "-", " ", "t">>

\* " WEBVTT": the signature after a space
TextHeaderIndented ==
    <<" ", "W", "E", "B", "V", "T", "T">>

\* the empty line
TextBlank ==
    <<>>

\* a line holding one space
TextSpace ==
    <<" ">>

\* "1"
TextOne ==
    <<"1">>

\* "2"
TextTwo ==
    <<"2">>

\* "7"
TextSeven ==
    <<"7">>

\* "Hello"
TextHello ==
    <<"H", "e", "l", "l", "o">>

\* "World"
TextWorld ==
    <<"W", "o", "r", "l", "d">>

\* "00:01.000 --> 00:02.000"
TextVTTShort ==
    <<"0", "0", ":", "0", "1", ".", "0", "0", "0", " ", "-", "-", ">",
      " ", "0", "0", ":", "0", "2", ".", "0", "0", "0">>

\* "00:00:03.000 --> 00:00:04.000 align:start"
TextVTTSettings ==
    <<"0", "0", ":", "0", "0", ":", "0", "3", ".", "0", "0", "0", " ",
      "-", "-", ">", " ", "0", "0", ":", "0", "0", ":", "0", "4", ".",
      "0", "0", "0", " ", "a", "l", "i", "g", "n", ":", "s", "t", "a",
      "r", "t">>

\* "x --> 00:02.000"
TextVTTBad ==
    <<"x", " ", "-", "-", ">", " ", "0", "0", ":", "0", "2", ".", "0",
      "0", "0">>

\* "00:00:01,000 --> 00:00:02,000"
TextSRTFirst ==
    <<"0", "0", ":", "0", "0", ":", "0", "1", ",", "0", "0", "0", " ",
      "-", "-", ">", " ", "0", "0", ":", "0", "0", ":", "0", "2", ",",
      "0", "0", "0">>

\* "00:00:03,000 --> 00:00:04,000"
TextSRTSecond ==
    <<"0", "0", ":", "0", "0", ":", "0", "3", ",", "0", "0", "0", " ",
      "-", "-", ">", " ", "0", "0", ":", "0", "0", ":", "0", "4", ",",
      "0", "0", "0">>

\* "01:02,500 --> 01:03,000"
TextSRTShort ==
    <<"0", "1", ":", "0", "2", ",", "5", "0", "0", " ", "-", "-", ">",
      " ", "0", "1", ":", "0", "3", ",", "0", "0", "0">>

\* "x --> 00:00:02,000"
TextSRTBad ==
    <<"x", " ", "-", "-", ">", " ", "0", "0", ":", "0", "0", ":", "0",
      "2", ",", "0", "0", "0">>

\* "00:0x:01,000 --> 00:00:02,000"
TextSRTInvalid ==
    <<"0", "0", ":", "0", "x", ":", "0", "1", ",", "0", "0", "0", " ",
      "-", "-", ">", " ", "0", "0", ":", "0", "0", ":", "0", "2", ",",
      "0", "0", "0">>

\* "1e999:00:01,000 --> 00:00:02,000"
TextSRTRange ==
    <<"1", "e", "9", "9", "9", ":", "0", "0", ":", "0", "1", ",", "0", "0",
      "0", " ", "-", "-", ">", " ", "0", "0", ":", "0", "0", ":", "0", "2",
      ",", "0", "0", "0">>

\* The lines a WebVTT input is drawn from.
WebVTTLines ==
    { Line(TextHeader), Line(TextHeaderTitled), Line(TextHeaderIndented),
      Line(TextBlank), Line(TextSpace), Line(TextOne), Line(TextHello),
      Line(TextVTTShort), Line(TextVTTSettings), Line(TextVTTBad),
      Overlong(TextHello) }

\* The lines an SRT input is drawn from.
SRTLines ==
    { Line(TextBlank), Line(TextSpace), Line(TextOne), Line(TextSeven),
      Line(TextHello), Line(TextSRTFirst), Line(TextSRTSecond),
      Line(TextSRTShort), Line(TextSRTBad), Line(TextSRTInvalid),
      Line(TextSRTRange),
      Overlong(TextHello) }

\* Two cue blocks with no blank line between them.
MissingBlankLine ==
    << Line(TextOne), Line(TextSRTFirst), Line(TextHello),
       Line(TextTwo), Line(TextSRTSecond), Line(TextWorld) >>

\* Three cue blocks as in TestParseSRT (parser_test.go:91-103): the second has
\* two text lines, the last ends at the end of the input.
ThreeSRTBlocks ==
    << Line(TextOne), Line(TextSRTFirst), Line(TextHello), Line(TextBlank),
       Line(TextTwo), Line(TextSRTSecond), Line(TextWorld), Line(TextHello),
       Line(TextBlank),
       Line(TextSeven), Line(TextSRTFirst), Line(TextWorld) >>

\* A cue fails to parse after an earlier cue was completed.
SRTLateFailure ==
    << Line(TextOne), Line(TextSRTFirst), Line(TextHello), Line(TextBlank),
       Line(TextTwo), Line(TextSRTInvalid), Line(TextWorld) >>

\* The inputs read from a script, line by line and then the end of input.
SRTScripts == { MissingBlankLine, ThreeSRTBlocks, SRTLateFailure }

\* Two cue blocks with identifier lines as in TestParseWebVTT
\* (parser_test.go:54-63); the second has two text lines.
TwoWebVTTBlocks ==
    << Line(TextHeader), Line(TextBlank),
       Line(TextSeven), Line(TextVTTShort), Line(TextHello), Line(TextBlank),
       Line(TextOne), Line(TextVTTSettings), Line(TextWorld), Line(TextHello) >>

\* Three cues, the second after a missing blank line, the last ended by a
\* blank line.
WebVTTMissingBlankLine ==
    << Line(TextHeaderTitled), Line(TextBlank),
       Line(TextVTTShort), Line(TextHello),
       Line(TextSeven), Line(TextVTTSettings), Line(TextWorld), Line(TextBlank),
       Line(TextVTTShort), Line(TextHello), Line(TextBlank) >>

\* A cue fails to parse after an earlier cue was completed.
WebVTTLateFailure ==
    << Line(TextHeader), Line(TextBlank),
       Line(TextVTTShort), Line(TextHello), Line(TextBlank),
       Line(TextVTTBad), Line(TextWorld) >>

WebVTTScripts == { TwoWebVTTBlocks, WebVTTMissingBlankLine, WebVTTLateFailure }

-----------------------------------------------------------------------------
(* The inputs *)

\* The captions of TestValidateCoverage (coverage_test.go:12-31), in ms.
TestCaptions ==
    << Caption(1, 10000, 20000, <<>>),
       Caption(2, 25000, 35000, <<>>),
       Caption(3, 40000, 55000, <<>>) >>

\* <<startTime, endTime, minCoverage>> of the cases of TestValidateCoverage
\* (coverage_test.go:40-67, 107), and the first window with the threshold
\* set to the reported percentage itself.
TestCases ==
    { <<10000, 55000, 6660>>,
      <<5000, 60000, 8000>>,
      <<0, 5000, 100>>,
      <<10000, 55000, 7777>>,
      <<10000, 5000, 9000>>,
      <<10000, 55000, 7778>> }

GridCaptions ==
    UNION { [1..n -> [Index: {0}, StartTime: TimeGrid, EndTime: TimeGrid, Text: {<<>>}]]
            : n \in 0..MaxCaptions }

\* Callers number the captions; ValidateCoverage never reads Index or Text.
Numbered(cs) == [k \in DOMAIN cs |-> [cs[k] EXCEPT !.Index = k]]

\* The test captions in every file order.
TestCaptionOrders ==
    { [k \in 1..3 |-> TestCaptions[p[k]]] : p \in Permutations(1..3) }

\* No parser is running.
NoFeed == [free |-> FALSE, rest |-> <<>>]

ParsersIdle ==
    /\ input = <<>>
    /\ feed = NoFeed
    /\ vtt = <<>>
    /\ srt = <<>>

\* Neither ParseCaptionsFile nor ParseLargeCaptionsFile was called.
FilesIdle ==
    /\ file = <<>>
    /\ call = <<>>

\* No calls run side by side, no timestamp or timeline function is called
\* on its own.
CallersIdle == callers = <<>> /\ timeCall = <<>>

\* main is not running.
MainIdle ==
    /\ args = <<>>
    /\ mainpc = "idle"
    /\ plainText = <<>>
    /\ hasFailures = FALSE
    /\ stdout = <<>>
    /\ exitCode = -1

InitCoverage ==
    /\ \/ /\ captions \in {Numbered(cs) : cs \in GridCaptions}
          /\ startTime \in TimeGrid
          /\ endTime \in TimeGrid
          /\ minCoverage \in MinCoverages
       \/ /\ captions \in TestCaptionOrders
          /\ \E t \in TestCases :
                /\ startTime = t[1]
                /\ endTime = t[2]
                /\ minCoverage = t[3]
    /\ pc = "entry"
    /\ totalTime = 0
    /\ coveredSegments = <<>>
    /\ i = 1
    /\ merged = <<>>
    /\ coveredTime = 0
    /\ result = EmptyResult
    /\ err = ""
    /\ ParsersIdle
    /\ FilesIdle
    /\ MainIdle
    /\ CallersIdle

-----------------------------------------------------------------------------
(* The steps of ValidateCoverage *)

\* coverage.go:39-41
RejectRange ==
    /\ pc = "entry"
    /\ InvalidRange(startTime, endTime)
    /\ pc' = "error"
    /\ result' = EmptyResult
    /\ err' = "end time must be greater than start time"
    /\ UNCHANGED <<captions, startTime, endTime, minCoverage, totalTime,
                   coveredSegments, i, merged, coveredTime>>
    /\ UNCHANGED <<parVars, fileVars, cliVars, conVars, timeVars>>

\* coverage.go:43-51
AcceptRange ==
    /\ pc = "entry"
    /\ ~InvalidRange(startTime, endTime)
    /\ totalTime' = endTime - startTime
    /\ coveredSegments' = <<>>
    /\ i' = 1
    /\ pc' = "collect"
    /\ UNCHANGED <<captions, startTime, endTime, minCoverage, merged,
                   coveredTime, result, err>>
    /\ UNCHANGED <<parVars, fileVars, cliVars, conVars, timeVars>>

\* coverage.go:54-65: one iteration of the collecting loop
CollectCaption ==
    /\ pc = "collect"
    /\ i <= Len(captions)
    /\ coveredSegments' =
          IF OutsideRange(captions[i], startTime, endTime)
          THEN coveredSegments
          ELSE Append(coveredSegments, Clip(captions[i], startTime, endTime))
    /\ i' = i + 1
    /\ UNCHANGED <<captions, startTime, endTime, minCoverage, pc, totalTime,
                   merged, coveredTime, result, err>>
    /\ UNCHANGED <<parVars, fileVars, cliVars, conVars, timeVars>>


\* as if the sort at coverage.go:70 ordered the captions themselves
SortAndStartInPlace ==
    /\ pc = "collect"
    /\ i > Len(captions)
    /\ Len(coveredSegments) > 0
    /\ coveredSegments' = SortSegments(coveredSegments)
    /\ captions' = [k \in DOMAIN captions |->
                      IF k \in DOMAIN coveredSegments'
                      THEN [captions[k] EXCEPT !.StartTime = coveredSegments'[k].start,
                                               !.EndTime = coveredSegments'[k].end]
                      ELSE captions[k]]
    /\ merged' = <<coveredSegments'[1]>>
    /\ i' = 2
    /\ pc' = "merge"
    /\ UNCHANGED <<startTime, endTime, minCoverage, totalTime,
                   coveredTime, result, err>>
    /\ UNCHANGED <<parVars, fileVars, cliVars, conVars, timeVars>>
\* coverage.go:68-79: the sort, and the sweep's first merged segment
SortAndStart ==
    /\ pc = "collect"
    /\ i > Len(captions)
    /\ Len(coveredSegments) > 0
    /\ coveredSegments' = SortSegments(coveredSegments)
    /\ merged' = <<coveredSegments'[1]>>
    /\ i' = 2
    /\ pc' = "merge"
    /\ UNCHANGED <<captions, startTime, endTime, minCoverage, totalTime,
                   coveredTime, result, err>>
    /\ UNCHANGED <<parVars, fileVars, cliVars, conVars, timeVars>>

\* coverage.go:68: nothing collected, the merge is skipped
SkipMerge ==
    /\ pc = "collect"
    /\ i > Len(captions)
    /\ Len(coveredSegments) = 0
    /\ pc' = "sum"
    /\ UNCHANGED <<captions, startTime, endTime, minCoverage, totalTime,
                   coveredSegments, i, merged, coveredTime, result, err>>
    /\ UNCHANGED <<parVars, fileVars, cliVars, conVars, timeVars>>

\* coverage.go:80-93: one iteration of the sweep
MergeSegment ==
    /\ pc = "merge"
    /\ i <= Len(coveredSegments)
    /\ merged' = MergeOne(merged, coveredSegments[i])
    /\ i' = i + 1
    /\ UNCHANGED <<captions, startTime, endTime, minCoverage, pc, totalTime,
                   coveredSegments, coveredTime, result, err>>
    /\ UNCHANGED <<parVars, fileVars, cliVars, conVars, timeVars>>

\* coverage.go:95
FinishMerge ==
    /\ pc = "merge"
    /\ i > Len(coveredSegments)
    /\ coveredSegments' = merged
    /\ pc' = "sum"
    /\ UNCHANGED <<captions, startTime, endTime, minCoverage, totalTime, i,
                   merged, coveredTime, result, err>>
    /\ UNCHANGED <<parVars, fileVars, cliVars, conVars, timeVars>>

\* coverage.go:98-127
SumAndReport ==
    /\ pc = "sum"
    /\ coveredTime' = SumSegments(coveredSegments)
    /\ result' = BuildResult(startTime, endTime, totalTime, coveredTime', minCoverage)
    /\ err' = ""
    /\ pc' = "done"
    /\ UNCHANGED <<captions, startTime, endTime, minCoverage, totalTime,
                   coveredSegments, i, merged>>
    /\ UNCHANGED <<parVars, fileVars, cliVars, conVars, timeVars>>

NextCoverage ==
    \/ RejectRange
    \/ AcceptRange
    \/ CollectCaption
    \/ SortAndStart
    \/ SkipMerge
    \/ MergeSegment
    \/ FinishMerge
    \/ SumAndReport

SpecCoverage == InitCoverage /\ [][NextCoverage]_vars

-----------------------------------------------------------------------------
(* The parsers reading an input *)

\* ValidateCoverage is not running.
CoverageIdle ==
    /\ captions = <<>>
    /\ startTime = 0
    /\ endTime = 0
    /\ minCoverage = 0
    /\ pc = "idle"
    /\ totalTime = 0
    /\ coveredSegments = <<>>
    /\ i = 1
    /\ merged = <<>>
    /\ coveredTime = 0
    /\ result = EmptyResult
    /\ err = ""

FreeFeed == [free |-> TRUE, rest |-> <<>>]
Script(lines) == [free |-> FALSE, rest |-> lines]

\* The events the input can deliver next: any line of the vocabulary while
\* fewer than MaxLines were read, or the script's next line; the end of input
\* at any point of a free input and at the end of a script.
Offered(lines) ==
    IF feed.free
    THEN (IF Len(input) < MaxLines THEN lines ELSE {}) \cup {EndOfInput}
    ELSE IF feed.rest # <<>> THEN {Head(feed.rest)} ELSE {EndOfInput}

Consume(ev) ==
    /\ input' = Append(input, ev)
    /\ feed' = IF feed.free \/ feed.rest = <<>> THEN feed
               ELSE [feed EXCEPT !.rest = Tail(feed.rest)]

InitWebVTT ==
    /\ CoverageIdle
    /\ FilesIdle
    /\ MainIdle
    /\ CallersIdle
    /\ input = <<>>
    /\ feed \in {FreeFeed} \cup {Script(lines) : lines \in WebVTTScripts}
    /\ vtt = [parseWebVTT |-> WebVTTStart, parseChunkedWebVTT |-> WebVTTStart]
    /\ srt = <<>>

\* scanner.Scan() in parseWebVTT and in parseChunkedWebVTT, reading the same input
WebVTTScan(ev) ==
    /\ DOMAIN vtt # {}
    /\ ~(vtt.parseWebVTT.phase = "returned" /\ vtt.parseChunkedWebVTT.phase = "returned")
    /\ Consume(ev)
    /\ vtt' = [parseWebVTT |-> parseWebVTT(vtt.parseWebVTT, ev),
               parseChunkedWebVTT |-> parseChunkedWebVTT(vtt.parseChunkedWebVTT, ev)]
    /\ UNCHANGED <<covVars, srt, fileVars, cliVars, conVars, timeVars>>

\* Scan returns true: a line is read
WebVTTReadLine == \E ev \in Offered(WebVTTLines) : ScanOK(ev) /\ WebVTTScan(ev)

\* Scan returns false: the input ended, or its next line is too long
WebVTTReadStops == \E ev \in Offered(WebVTTLines) : ~ScanOK(ev) /\ WebVTTScan(ev)

NextWebVTT == WebVTTReadLine \/ WebVTTReadStops

SpecWebVTT == InitWebVTT /\ [][NextWebVTT]_vars

InitSRT ==
    /\ CoverageIdle
    /\ FilesIdle
    /\ MainIdle
    /\ CallersIdle
    /\ input = <<>>
    /\ feed \in {FreeFeed} \cup {Script(lines) : lines \in SRTScripts}
    /\ vtt = <<>>
    /\ srt = [parseSRT |-> SRTStart, parseChunkedSRT |-> SRTStart]

\* scanner.Scan() in parseSRT and in parseChunkedSRT, reading the same input
SRTScan(ev) ==
    /\ DOMAIN srt # {}
    /\ ~(srt.parseSRT.phase = "returned" /\ srt.parseChunkedSRT.phase = "returned")
    /\ Consume(ev)
    /\ srt' = [parseSRT |-> parseSRT(srt.parseSRT, ev),
               parseChunkedSRT |-> parseChunkedSRT(srt.parseChunkedSRT, ev)]
    /\ UNCHANGED <<covVars, vtt, fileVars, cliVars, conVars, timeVars>>

\* Scan returns true: a line is read
SRTReadLine == \E ev \in Offered(SRTLines) : ScanOK(ev) /\ SRTScan(ev)

\* Scan returns false: the input ended, or its next line is too long
SRTReadStops == \E ev \in Offered(SRTLines) : ~ScanOK(ev) /\ SRTScan(ev)

NextSRT == SRTReadLine \/ SRTReadStops

SpecSRT == InitSRT /\ [][NextSRT]_vars

-----------------------------------------------------------------------------
(* DetectCaptionFormat (parser.go:34-74), ParseCaptionsFile (parser.go:77-  *)
(* 105) and ParseLargeCaptionsFile (large_parser.go:13-41).  A file is its  *)
(* extension as filepath.Ext returns it, the output of the `file` command   *)
(* run on it (empty when the command fails), and its lines.                 *)

\* ".srt"
TextExtSRT ==
    <<".", "s", "r", "t">>

\* ".SRT"
TextExtSRTUpper ==
    <<".", "S", "R", "T">>

\* ".vtt"
TextExtVTT ==
    <<".", "v", "t", "t">>

\* ".txt"
TextExtTXT ==
    <<".", "t", "x", "t">>

\* "subrip"
TextSubrip ==
    <<"s", "u", "b", "r", "i", "p">>

\* "SubRip, ASCII text"
TextFileSubRip ==
    <<"S", "u", "b", "R", "i", "p", ",", " ", "A", "S", "C", "I", "I", " ",
      "t", "e", "x", "t">>

\* "ASCII text"
TextFileASCII ==
    <<"A", "S", "C", "I", "I", " ", "t", "e", "x", "t">>

FormatWebVTT == "WebVTT"
FormatSRT == "SRT"
ErrUnsupportedFormat == "unsupported caption format"

\* parser.go:46: the bytes read for the detection
HeaderBytes == 100

Upper ==
    <<"A", "B", "C", "D", "E", "F", "G", "H", "I", "J", "K", "L", "M",
      "N", "O", "P", "Q", "R", "S", "T", "U", "V", "W", "X", "Y", "Z">>

Lower ==
    <<"a", "b", "c", "d", "e", "f", "g", "h", "i", "j", "k", "l", "m",
      "n", "o", "p", "q", "r", "s", "t", "u", "v", "w", "x", "y", "z">>

\* strings.ToLower
ToLowerChar(c) ==
    IF \E k \in DOMAIN Upper : Upper[k] = c
    THEN Lower[CHOOSE k \in DOMAIN Upper : Upper[k] = c]
    ELSE c

ToLower(s) == IF s = <<>> THEN <<>> ELSE [k \in 1..Len(s) |-> ToLowerChar(s[k])]

\* The bytes of a file: every line followed by a newline.
RECURSIVE Content(_)
Content(lines) ==
    IF lines = <<>> THEN <<>>
    ELSE Head(lines).text \o NewLine \o Content(Tail(lines))

\* parser.go:46-51: header[:n] after file.Read
Header(content) == SubSeq(content, 1, Min(HeaderBytes, Len(content)))

\* \s of the regular expression
RegexSpace == {"\t", "\n", "\f", "\r", " "}

\* The length of the longest run of characters of set that starts at s[from].
SpanOf(s, from, set) ==
    Least({k \in from..(Len(s) + 1) : k > Len(s) \/ s[k] \notin set}) - from

DigitAt(s, k) == k <= Len(s) /\ s[k] \in Digits

CharAt(s, k, c) == k <= Len(s) /\ s[k] = c

\* \d{2}:\d{2}:\d{2},\d{3} at s[q]
ClockAt(s, q) ==
    /\ DigitAt(s, q) /\ DigitAt(s, q + 1) /\ CharAt(s, q + 2, ":")
    /\ DigitAt(s, q + 3) /\ DigitAt(s, q + 4) /\ CharAt(s, q + 5, ":")
    /\ DigitAt(s, q + 6) /\ DigitAt(s, q + 7) /\ CharAt(s, q + 8, ",")
    /\ DigitAt(s, q + 9) /\ DigitAt(s, q + 10) /\ DigitAt(s, q + 11)

\* \s*--> at s[q]
ArrowAt(s, q) == q + 2 <= Len(s) /\ SubSeq(s, q, q + 2) = Arrow

ArrowAfterSpace(s, q) == ArrowAt(s, q + SpanOf(s, q, RegexSpace))

\* ^\d+\s*\r?\n and the rest: n digits, then w characters of white space of
\* which the last is the newline (a digit follows, so \s*\r?\n takes the
\* whole run)
IndexThenClock(s, n, w) ==
    /\ n >= 1
    /\ w >= 1
    /\ s[n + w] = "\n"
    /\ ClockAt(s, n + w + 1)
    /\ ArrowAfterSpace(s, n + w + 13)

IndexSpan(s, n) == IndexThenClock(s, n, SpanOf(s, n + 1, RegexSpace))

\* parser.go:69: regexp `^\d+\s*\r?\n\d{2}:\d{2}:\d{2},\d{3}\s*-->` matches
MatchesSRTPattern(header) == IndexSpan(header, SpanOf(header, 1, Digits))

Detected(format) == [format |-> format, err |-> ""]
NotDetected(e) == [format |-> "", err |-> e]

\* parser.go:62
HasSignature(header) == HasPrefix(header, Signature) \/ Contains(header, Signature)

\* parser.go:68-69
LooksLikeSRTAnyFile(ext, fileType, header) == TRUE
LooksLikeSRT(ext, fileType, header) ==
    \/ ext = TextExtSRT
    \/ Contains(fileType, TextSubrip)
    \/ MatchesSRTPattern(header)

\* parser.go:61-73: the rules, in order
DetectRulesSRTFirst(ext, fileType, header) ==
    IF LooksLikeSRT(ext, fileType, header) THEN Detected(FormatSRT)
    ELSE IF HasSignature(header) THEN Detected(FormatWebVTT)
    ELSE NotDetected(ErrUnsupportedFormat)

DetectRules(ext, fileType, header) ==
    IF HasSignature(header) THEN Detected(FormatWebVTT)
    ELSE IF LooksLikeSRT(ext, fileType, header) THEN Detected(FormatSRT)
    ELSE NotDetected(ErrUnsupportedFormat)

\* parser.go:34-74, once the file is open and read
DetectCaptionFormat(f) ==
    DetectRules(ToLower(f.ext), ToLower(f.output), Header(Content(f.lines)))

\* The error of a failed os.Open or file.Read.
ErrIO == "no such file or directory"

ParseCaptionsFile == "ParseCaptionsFile"
ParseLargeCaptionsFile == "ParseLargeCaptionsFile"

\* parser.go:93,95 and large_parser.go:29,31: the parser a call hands the file to
ParserOf(fn, format) ==
    IF fn = ParseCaptionsFile
    THEN (IF format = FormatWebVTT THEN "parseWebVTT" ELSE "parseSRT")
    ELSE (IF format = FormatWebVTT THEN "parseChunkedWebVTT" ELSE "parseChunkedSRT")

\* parser.go:80,85,101: return nil, "", err
Failing(c, e) ==
    [c EXCEPT !.phase = "returned", !.captions = <<>>, !.tag = "", !.err = e]

\* parser.go:100-104
Returning(c, parsed) ==
    IF parsed.err # "" THEN Failing(c, parsed.err)
    ELSE [c EXCEPT !.phase = "returned", !.captions = parsed.ret,
                   !.tag = c.format, !.err = ""]

\* parser.go:78-81
AfterDetect(c, detected) ==
    IF detected.err # "" THEN Failing(c, detected.err)
    ELSE [c EXCEPT !.phase = "open", !.format = detected.format]

-----------------------------------------------------------------------------
(* The files of the explored calls *)

\* An index line, a timeline and the signature as the caption's text.
SignatureInText ==
    << Line(TextOne), Line(TextSRTFirst), Line(TextHeader) >>

\* The signature after the first 100 bytes.
SignatureAfterHeader == ThreeSRTBlocks \o << Line(TextHeader) >>

\* An index line, a blank line, a timeline.
IndexBlankTimeline ==
    << Line(TextOne), Line(TextBlank), Line(TextSRTFirst), Line(TextHello) >>

\* An index line and a timeline without hours.
IndexShortTimeline ==
    << Line(TextOne), Line(TextSRTShort), Line(TextHello) >>

\* Text before the index line.
TextThenIndex ==
    << Line(TextHello), Line(TextOne), Line(TextSRTFirst), Line(TextWorld) >>

PlainText == << Line(TextHello), Line(TextWorld) >>

FileContents ==
    { <<>>, TwoWebVTTBlocks, WebVTTLateFailure, ThreeSRTBlocks, SRTLateFailure,
      MissingBlankLine, SignatureInText, SignatureAfterHeader,
      IndexBlankTimeline, IndexShortTimeline, TextThenIndex, PlainText }

Extensions == {TextExtSRT, TextExtSRTUpper, TextExtVTT, TextExtTXT}

\* What the `file` command printed; empty when it could not be run.
FileOutputs == {<<>>, TextFileSubRip, TextFileASCII}

Files == [ext : Extensions, output : FileOutputs, lines : FileContents]

-----------------------------------------------------------------------------
(* ParseCaptionsFile and ParseLargeCaptionsFile called on a file *)

InitFiles ==
    /\ CoverageIdle
    /\ MainIdle
    /\ CallersIdle
    /\ ParsersIdle
    /\ file \in Files
    /\ \E fn \in {ParseCaptionsFile, ParseLargeCaptionsFile} :
          call = [fn |-> fn, phase |-> "detect", format |-> "",
                  captions |-> <<>>, tag |-> "", err |-> ""]

Calling(phase) == DOMAIN call # {} /\ call.phase = phase

\* parser.go:36-39, 47-50: os.Open or file.Read fails in DetectCaptionFormat
DetectFails ==
    /\ Calling("detect")
    /\ call' = AfterDetect(call, NotDetected(ErrIO))
    /\ UNCHANGED <<covVars, parVars, file, cliVars, conVars, timeVars>>

\* parser.go:78-81 with 34-74
DetectFormat ==
    /\ Calling("detect")
    /\ call' = AfterDetect(call, DetectCaptionFormat(file))
    /\ UNCHANGED <<covVars, parVars, file, cliVars, conVars, timeVars>>

\* parser.go:83-86: os.Open fails
OpenFails ==
    /\ Calling("open")
    /\ call' = Failing(call, ErrIO)
    /\ UNCHANGED <<covVars, parVars, file, cliVars, conVars, timeVars>>

\* parser.go:83-98: the file is opened and handed to the format's parser
Dispatch ==
    /\ Calling("open")
    /\ call' = [call EXCEPT !.phase = "parse"]
    /\ input' = <<>>
    /\ feed' = Script(file.lines)
    /\ vtt' = IF call.format = FormatWebVTT
              THEN [parseWebVTT |-> WebVTTStart, parseChunkedWebVTT |-> WebVTTStart]
              ELSE vtt
    /\ srt' = IF call.format = FormatSRT
              THEN [parseSRT |-> SRTStart, parseChunkedSRT |-> SRTStart]
              ELSE srt
    /\ UNCHANGED <<covVars, file, cliVars, conVars, timeVars>>

\* The locals of the parser the call runs.
Running(fn, format) ==
    IF format = FormatWebVTT THEN vtt[ParserOf(fn, format)]
    ELSE srt[ParserOf(fn, format)]

\* parser.go:100-104: the parser returned
FileReturn ==
    /\ Calling("parse")
    /\ Running(call.fn, call.format).phase = "returned"
    /\ call' = Returning(call, Running(call.fn, call.format))
    /\ UNCHANGED <<covVars, parVars, file, cliVars, conVars, timeVars>>

-----------------------------------------------------------------------------
(* The parsers, reading any input or called on a file *)

InitParsers == InitWebVTT \/ InitSRT \/ InitFiles

NextParsers ==
    \/ WebVTTReadLine
    \/ WebVTTReadStops
    \/ SRTReadLine
    \/ SRTReadStops
    \/ DetectFails
    \/ DetectFormat
    \/ OpenFails
    \/ Dispatch
    \/ FileReturn

SpecParsers == InitParsers /\ [][NextParsers]_vars

-----------------------------------------------------------------------------
(* ExtractPlainText (parser.go:108-119) *)

LessThan == <<"<">>
GreaterThan == <<">">>

\* regexp `<[^>]*>` replaced by "": the leftmost "<" that has a ">" after it
\* is removed up to the first such ">", and so on in what follows.
RECURSIVE StripTags(_)
RECURSIVE StripFrom(_, _)
RECURSIVE StripTo(_, _, _)
StripTo(s, k, j) ==
    IF j = 0 THEN s
    ELSE SubSeq(s, 1, k - 1) \o StripTags(SubSeq(s, k + j + 1, Len(s)))

StripFrom(s, k) ==
    IF k = 0 THEN s
    ELSE StripTo(s, k, IndexOf(SubSeq(s, k + 1, Len(s)), GreaterThan))

StripTagsKeepsFirst(s) == s
StripTags(s) == StripFrom(s, IndexOf(s, LessThan))

\* parser.go:111-116: what the loop writes to the builder
RECURSIVE WriteAll(_)
WriteAll(cs) ==
    IF cs = <<>> THEN <<>>
    ELSE StripTags(Head(cs).Text) \o <<" ">> \o WriteAll(Tail(cs))

\* parser.go:108-119
ExtractPlainText(cs) == TrimSpace(WriteAll(cs))

-----------------------------------------------------------------------------
(* ValidateLanguage (part_002:43-87) and main (main.go:16-130).  The model  *)
(* of main takes as given what flag parsing, os.Stat, parseTimeInput,       *)
(* ParseCaptionsFile and the language API yield.                            *)

ExpectedLang == "en-US"

LanguageError(e) == [err |-> e, Valid |-> FALSE, Language |-> "", ExpectedLang |-> ""]

\* part_002:50-86: reply is what the HTTP exchange came to
ValidateLanguage(reply) ==
    CASE reply.kind = "request" -> LanguageError("error creating request")
      [] reply.kind = "unreachable" -> LanguageError("error sending request to language API")
      [] reply.kind = "status" -> LanguageError("API returned non-200 status")
      [] reply.kind = "malformed" -> LanguageError("error parsing API response")
      [] OTHER -> [err |-> "", Valid |-> reply.lang = ExpectedLang,
                   Language |-> reply.lang, ExpectedLang |-> ExpectedLang]

\* coverage.go:19-35: ValidationResult.JSON()
CoverageJSON(r) == [type |-> r.Type, data |-> r.Data]

\* part_002:26-40: LanguageValidationResult.JSON()
LanguageJSON(r) ==
    [type |-> "incorrect_language",
     data |-> [detected |-> r.Language, expected |-> r.ExpectedLang]]

\* main.go:46, 75
ErrorJSON(type) == [type |-> type, data |-> <<>>]

\* main.go:99-102: what is printed for the coverage result
CoverageOutputAlways(r) == <<CoverageJSON(r)>>
CoverageOutput(r) == IF ~r.Valid THEN <<CoverageJSON(r)>> ELSE <<>>

\* main.go:34-67: what ends main before the file is parsed
EarlyFailures == {"arguments", "file_not_found", "t_start", "no_t_end", "t_end"}

\* "<b>World</b>"
TextBold ==
    <<"<", "b", ">", "W", "o", "r", "l", "d", "<", "/", "b", ">">>

\* "Hello\nWorld"
TextTwoLines ==
    <<"H", "e", "l", "l", "o", "\n", "W", "o", "r", "l", "d">>

\* " Hello"
TextIndented ==
    <<" ", "H", "e", "l", "l", "o">>

\* "a<"
TextOpenTag ==
    <<"a", "<">>

\* "<i>"
TextTagOnly ==
    <<"<", "i", ">">>

\* "x<a\nb>y"
TextTagAcrossLines ==
    <<"x", "<", "a", "\n", "b", ">", "y">>

\* "a>b<c"
TextGreater ==
    <<"a", ">", "b", "<", "c">>

\* The captions of TestValidateCoverage with texts as in TestExtractPlainText
\* (parser_test.go:24-43).
TestCaptionsWithText ==
    << Caption(1, 10000, 20000, TextHello),
       Caption(2, 25000, 35000, TextBold),
       Caption(3, 40000, 55000, TextTwoLines) >>

CaptionTexts ==
    { TextBlank, TextHello, TextBold, TextTwoLines, TextIndented, TextOpenTag,
      TextTagOnly, TextTagAcrossLines, TextGreater }

\* Up to MaxCaptions captions with any of the texts, 10 s each, 5 s apart.
TextCaptions ==
    UNION { [1..n -> CaptionTexts] : n \in 0..MaxCaptions }

Timed(texts) ==
    IF texts = <<>> THEN <<>>
    ELSE [k \in 1..Len(texts) |->
            Caption(k, 15000 * k - 5000, 15000 * k + 5000, texts[k])]

Parsed(cs) == [captions |-> cs, format |-> FormatSRT, err |-> ""]
NotParsed(e) == [captions |-> <<>>, format |-> "", err |-> e]

NoReply == [kind |-> "none", lang |-> ""]

Replies ==
    { [kind |-> "request", lang |-> ""], [kind |-> "unreachable", lang |-> ""],
      [kind |-> "status", lang |-> ""], [kind |-> "malformed", lang |-> ""],
      [kind |-> "lang", lang |-> "en-US"], [kind |-> "lang", lang |-> "es-ES"],
      [kind |-> "lang", lang |-> ""] }

\* <<startSec, endSec, *minCoverage>>
Windows == { <<10000, 55000, 6660>>, <<5000, 60000, 8000>>, <<10000, 5000, 9000>> }

Run(early, parsed, window, api, reply) ==
    [early |-> early, parsed |-> parsed, startSec |-> window[1],
     endSec |-> window[2], minCoverage |-> window[3], apiURL |-> api,
     reply |-> reply]

\* What main is run on: runs that end before the validations, runs over the
\* windows and the API's answers, runs over the caption texts.
MainArgs ==
    { Run(early, Parsed(<<>>), <<0, 0, 0>>, "", NoReply) : early \in EarlyFailures }
    \cup { Run("", NotParsed(e), <<10000, 55000, 6660>>, "", NoReply) :
              e \in {ErrUnsupportedFormat, "missing WEBVTT header"} }
    \cup { Run("", Parsed(cs), w, "", NoReply) :
              cs \in {<<>>, TestCaptionsWithText}, w \in Windows }
    \cup { Run("", Parsed(cs), w, "http://localhost:8080/validate", r) :
              cs \in {<<>>, TestCaptionsWithText}, w \in Windows, r \in Replies }
    \cup { Run("", Parsed(Timed(ts)), <<10000, 55000, 6660>>, "", NoReply) :
              ts \in TextCaptions }

InitMain ==
    /\ CoverageIdle
    /\ ParsersIdle
    /\ FilesIdle
    /\ CallersIdle
    /\ args \in MainArgs
    /\ mainpc = "start"
    /\ plainText = <<>>
    /\ hasFailures = FALSE
    /\ stdout = <<>>
    /\ exitCode = -1

Exit(code) == mainpc' = "exited" /\ exitCode' = code

\* main.go:34-67: wrong arguments, a missing file, an unreadable time
MainRejectsArguments ==
    /\ mainpc = "start"
    /\ args.early # ""
    /\ stdout' = IF args.early = "file_not_found"
                 THEN Append(stdout, ErrorJSON("file_not_found")) ELSE stdout
    /\ Exit(1)
    /\ UNCHANGED <<covVars, parVars, fileVars, conVars, timeVars, args, plainText, hasFailures>>

\* main.go:69-80: ParseCaptionsFile returned an error
MainParseFails ==
    /\ mainpc = "start"
    /\ args.early = ""
    /\ args.parsed.err # ""
    /\ stdout' = IF args.parsed.err = ErrUnsupportedFormat
                 THEN Append(stdout, ErrorJSON("unsupported_format")) ELSE stdout
    /\ Exit(1)
    /\ UNCHANGED <<covVars, parVars, fileVars, conVars, timeVars, args, plainText, hasFailures>>

\* main.go:69-93: the file is parsed, the text extracted, ValidateCoverage called
MainValidates ==
    /\ mainpc = "start"
    /\ args.early = ""
    /\ args.parsed.err = ""
    /\ plainText' = ExtractPlainText(args.parsed.captions)
    /\ hasFailures' = FALSE
    /\ captions' = args.parsed.captions
    /\ startTime' = args.startSec
    /\ endTime' = args.endSec
    /\ minCoverage' = args.minCoverage
    /\ pc' = "entry"
    /\ mainpc' = "coverage"
    /\ UNCHANGED <<totalTime, coveredSegments, i, merged, coveredTime, result, err,
                   parVars, fileVars, conVars, timeVars, args, stdout, exitCode>>

\* main.go:94-97: ValidateCoverage returned an error
MainCoverageFails ==
    /\ mainpc = "coverage"
    /\ pc = "error"
    /\ Exit(1)
    /\ UNCHANGED <<covVars, parVars, fileVars, conVars, timeVars, args, plainText, hasFailures, stdout>>

\* main.go:99-102
MainReportsCoverage ==
    /\ mainpc = "coverage"
    /\ pc = "done"
    /\ stdout' = stdout \o CoverageOutput(result)
    /\ hasFailures' = ~result.Valid
    /\ mainpc' = "language"
    /\ UNCHANGED <<covVars, parVars, fileVars, conVars, timeVars, args, plainText, exitCode>>

\* main.go:120-122: no API URL
MainSkipsLanguage ==
    /\ mainpc = "language"
    /\ args.apiURL = ""
    /\ mainpc' = "finish"
    /\ UNCHANGED <<covVars, parVars, fileVars, conVars, timeVars, args, plainText, hasFailures,
                   stdout, exitCode>>

\* main.go:114-118 with lr the result of ValidateLanguage
LanguageFailure(lr) ==
    /\ stdout' = Append(stdout, LanguageJSON(lr))
    /\ Exit(1)

LanguagePasses ==
    /\ mainpc' = "finish"
    /\ UNCHANGED <<stdout, exitCode>>


\* as if a failed API call ended main like a failed validation
AfterLanguageExitsOnError(lr) ==
    IF lr.err # "" THEN Exit(1) /\ UNCHANGED stdout
    ELSE IF ~lr.Valid THEN LanguageFailure(lr)
    ELSE LanguagePasses
\* main.go:108-118 with lr the result of ValidateLanguage
AfterLanguage(lr) ==
    IF lr.err # "" THEN LanguagePasses
    ELSE IF ~lr.Valid THEN LanguageFailure(lr)
    ELSE LanguagePasses

\* main.go:105-119
MainValidatesLanguage ==
    /\ mainpc = "language"
    /\ args.apiURL # ""
    /\ AfterLanguage(ValidateLanguage(args.reply))
    /\ UNCHANGED <<covVars, parVars, fileVars, conVars, timeVars, args, plainText, hasFailures>>

\* main.go:124-130: main returns
MainReturns ==
    /\ mainpc = "finish"
    /\ Exit(0)
    /\ UNCHANGED <<covVars, parVars, fileVars, conVars, timeVars, args, plainText, hasFailures, stdout>>

NextMain ==
    \/ MainRejectsArguments
    \/ MainParseFails
    \/ MainValidates
    \/ RejectRange
    \/ AcceptRange
    \/ CollectCaption
    \/ SortAndStart
    \/ SkipMerge
    \/ MergeSegment
    \/ FinishMerge
    \/ SumAndReport
    \/ MainCoverageFails
    \/ MainReportsCoverage
    \/ MainSkipsLanguage
    \/ MainValidatesLanguage
    \/ MainReturns

SpecMain == InitMain /\ [][NextMain]_vars

-----------------------------------------------------------------------------
(* Calls running side by side.  Each call works on its own locals: the      *)
(* parsers declare theirs inside the function (part_004:13-35,              *)
(* srt.go:12-17), ValidateCoverage works on its parameters and on           *)
(* coveredSegments, merged and coveredTime declared in its body             *)
(* (coverage.go:38-99); there is no package-level variable that is written. *)

MaxCallers == 2

\* coverage.go:38: the parameters and the locals at entry
CoverageLocals(cs, s, e, m) ==
    [captions |-> cs, startTime |-> s, endTime |-> e, minCoverage |-> m,
     pc |-> "entry", totalTime |-> 0, coveredSegments |-> <<>>, i |-> 1,
     merged |-> <<>>, coveredTime |-> 0, result |-> EmptyResult, err |-> ""]

\* coverage.go:39-51
Entry(c) ==
    IF InvalidRange(c.startTime, c.endTime)
    THEN [c EXCEPT !.pc = "error", !.result = EmptyResult,
                   !.err = "end time must be greater than start time"]
    ELSE [c EXCEPT !.totalTime = c.endTime - c.startTime, !.coveredSegments = <<>>,
                   !.i = 1, !.pc = "collect"]

\* coverage.go:54-65: one iteration of the collecting loop
Collected(c) ==
    [c EXCEPT !.coveredSegments =
                  IF OutsideRange(c.captions[c.i], c.startTime, c.endTime) THEN @
                  ELSE Append(@, Clip(c.captions[c.i], c.startTime, c.endTime)),
              !.i = @ + 1]

\* coverage.go:70-72
Sorted(c) == [c EXCEPT !.coveredSegments = SortSegments(@)]

\* coverage.go:79-80
SweepStarted(c) ==
    [c EXCEPT !.merged = <<c.coveredSegments[1]>>, !.i = 2, !.pc = "merge"]

\* coverage.go:54-79
Collect(c) ==
    IF c.i <= Len(c.captions) THEN Collected(c)
    ELSE IF Len(c.coveredSegments) > 0 THEN SweepStarted(Sorted(c))
    ELSE [c EXCEPT !.pc = "sum"]

\* coverage.go:80-95
Merge(c) ==
    IF c.i <= Len(c.coveredSegments)
    THEN [c EXCEPT !.merged = MergeOne(@, c.coveredSegments[c.i]), !.i = @ + 1]
    ELSE [c EXCEPT !.coveredSegments = c.merged, !.pc = "sum"]

\* coverage.go:98-102
Summed(c) == [c EXCEPT !.coveredTime = SumSegments(c.coveredSegments)]

\* coverage.go:104-127
Reported(c) ==
    [c EXCEPT !.result = BuildResult(c.startTime, c.endTime, c.totalTime,
                                     c.coveredTime, c.minCoverage),
              !.err = "", !.pc = "done"]

\* One step of ValidateCoverage on the locals c
ValidateCoverageStep(c) ==
    CASE c.pc = "entry" -> Entry(c)
      [] c.pc = "collect" -> Collect(c)
      [] c.pc = "merge" -> Merge(c)
      [] c.pc = "sum" -> Reported(Summed(c))
      [] OTHER -> c

RECURSIVE ValidateCoverage(_)
ValidateCoverage(c) ==
    IF c.pc \in {"done", "error"} THEN c ELSE ValidateCoverage(ValidateCoverageStep(c))

Parsing(fn, events) ==
    [fn |-> fn, events |-> events, read |-> 0, st |-> StartOf(fn)]

Validating(cs, t) ==
    [fn |-> "ValidateCoverage", events |-> <<>>, read |-> 0,
     st |-> CoverageLocals(cs, t[1], t[2], t[3])]

\* The calls that run side by side: each parser on each script, and
\* ValidateCoverage on the captions and cases of TestValidateCoverage.
Calls ==
    { Parsing(fn, events) : fn \in {"parseWebVTT", "parseChunkedWebVTT"},
                            events \in WebVTTScripts }
    \cup { Parsing(fn, events) : fn \in {"parseSRT", "parseChunkedSRT"},
                                 events \in SRTScripts }
    \cup { Validating(TestCaptions, t) : t \in TestCases }

Callers == 1..MaxCallers

InitConcurrent ==
    /\ CoverageIdle
    /\ ParsersIdle
    /\ FilesIdle
    /\ MainIdle
    /\ timeCall = <<>>
    /\ callers \in [Callers -> Calls]
    /\ \A j \in Callers : \A k \in Callers : j # k => callers[j] # callers[k]

HasReturned(c) ==
    IF c.fn = "ValidateCoverage" THEN c.st.pc \in {"done", "error"}
    ELSE c.st.phase = "returned"

\* as if the captions slice were one package-level variable: a call's step
\* finds in it what another call put there
SharedCaptions(cs, k) ==
    IF \E j \in DOMAIN cs : j # k /\ cs[j].read > 0 /\ ~HasReturned(cs[j])
    THEN [cs[k].st EXCEPT !.captions =
             cs[CHOOSE j \in DOMAIN cs : j # k /\ cs[j].read > 0 /\ ~HasReturned(cs[j])].st.captions]
    ELSE cs[k].st

\* The locals the next step of call k works on: its own
LocalsOf(cs, k) == cs[k].st

\* The next Scan of a parser's call
NextEvent(c) ==
    IF c.read < Len(c.events) THEN c.events[c.read + 1] ELSE EndOfInput

\* One loop iteration of the parser of call k
ParserStep(k) ==
    /\ callers[k].fn # "ValidateCoverage"
    /\ ~HasReturned(callers[k])
    /\ callers' = [callers EXCEPT
                     ![k].st = StepOf(callers[k].fn, LocalsOf(callers, k),
                                      NextEvent(callers[k])),
                     ![k].read = @ + 1]
    /\ UNCHANGED <<covVars, parVars, fileVars, cliVars, timeVars>>

\* One step of the ValidateCoverage of call k
CoverageStep(k) ==
    /\ callers[k].fn = "ValidateCoverage"
    /\ ~HasReturned(callers[k])
    /\ callers' = [callers EXCEPT
                     ![k].st = ValidateCoverageStep(LocalsOf(callers, k)),
                     ![k].read = @ + 1]
    /\ UNCHANGED <<covVars, parVars, fileVars, cliVars, timeVars>>

NextConcurrent ==
    \/ \E k \in Callers : ParserStep(k)
    \/ \E k \in Callers : CoverageStep(k)

SpecConcurrent == InitConcurrent /\ [][NextConcurrent]_vars

-----------------------------------------------------------------------------
(* The timestamp and timeline functions called on their own: a timestamp   *)
(* is up to MaxComponents components joined by ":", a timeline is two       *)
(* timestamps with or without the arrow between them and with or without    *)
(* cue settings after them.                                                 *)

MaxComponents == 4

Colon == <<":">>

\* Hours and minutes components: "00", "01", "1", "x", and "0,5" with a comma.
WholeComponents ==
    { <<"0", "0">>,
      <<"0", "1">>,
      <<"1">>,
      <<"x">>,
      <<"0", ",", "5">> }

\* Seconds components with a period: "00.000", "01.500", "30", "0x".
PeriodSeconds ==
    { <<"0", "0", ".", "0", "0", "0">>,
      <<"0", "1", ".", "5", "0", "0">>,
      <<"3", "0">>,
      <<"0", "x">> }

\* Seconds components with a comma: "00,000", "01,500", "30", "0x", and
\* "1,5,0" with two commas.
CommaSeconds ==
    { <<"0", "0", ",", "0", "0", "0">>,
      <<"0", "1", ",", "5", "0", "0">>,
      <<"3", "0">>,
      <<"0", "x">>,
      <<"1", ",", "5", ",", "0">> }

\* The components before the seconds component.
Leading(n) == [1..n -> WholeComponents]

ComponentsOf(seconds) ==
    UNION { { lead \o <<sec>> : lead \in Leading(n), sec \in seconds }
            : n \in 0..(MaxComponents - 1) }

TimestampCall(fn, parts) ==
    [fn |-> fn, kind |-> "timestamp", parts |-> parts, arrow |-> <<>>,
     settings |-> <<>>, text |-> Join(parts, Colon), pc |-> "call",
     ret |-> NoTimes("")]

\* The timestamps a timeline is made of: "00:01.000", "00:00:02.000",
\* "01:02.500", and the same with a comma.
PeriodTimestamps == {<<"0", "0", ":", "0", "1", ".", "0", "0", "0">>,
      <<"0", "0", ":", "0", "0", ":", "0", "2", ".", "0", "0", "0">>,
      <<"0", "1", ":", "0", "2", ".", "5", "0", "0">>}

CommaTimestamps == {<<"0", "0", ":", "0", "1", ",", "0", "0", "0">>,
      <<"0", "0", ":", "0", "0", ":", "0", "2", ",", "0", "0", "0">>,
      <<"0", "1", ":", "0", "2", ",", "5", "0", "0">>}

\* What stands between the two timestamps: the arrow with and without
\* spaces, or no arrow.
Arrows == {<<" ", "-", "-", ">", " ">>, <<"-", "-", ">">>}

NoArrows == {<<" ">>, <<" ", "-", ">", " ">>}

\* Cue settings: none, after a space, after two spaces, after a tab.
Settings == {<<>>,
      <<" ", "a", "l", "i", "g", "n", ":", "s", "t", "a", "r", "t">>,
      <<" ", " ", "l", "i", "n", "e", ":", "0">>,
      <<"\t", "a", "l", "i", "g", "n", ":", "s", "t", "a", "r", "t">>}

TimelineCall(fn, start, arrow, end, settings) ==
    [fn |-> fn, kind |-> "timeline", parts |-> <<start, end>>, arrow |-> arrow,
     settings |-> settings, text |-> start \o arrow \o end \o settings,
     pc |-> "call", ret |-> NoTimes("")]

TimeCalls ==
    { TimestampCall("parseWebVTTTimestamp", parts) : parts \in ComponentsOf(PeriodSeconds) }
    \cup { TimestampCall("parseSRTTimestamp", parts) : parts \in ComponentsOf(CommaSeconds) }
    \cup { TimelineCall("parseWebVTTTimeline", start, arrow, end, settings) :
              start \in PeriodTimestamps, arrow \in Arrows \cup NoArrows,
              end \in PeriodTimestamps, settings \in Settings }
    \cup { TimelineCall("parseSRTTimeline", start, arrow, end, <<>>) :
              start \in CommaTimestamps, arrow \in Arrows \cup NoArrows,
              end \in CommaTimestamps }

InitTimes ==
    /\ CoverageIdle
    /\ ParsersIdle
    /\ FilesIdle
    /\ MainIdle
    /\ callers = <<>>
    /\ timeCall \in TimeCalls

\* The result and the error of a timestamp function as a timeline's are.
TimestampReturn(r) == [err |-> r.err, start |-> r.val, end |-> r.val]

TimeCalled(fn) == timeCall.fn = fn /\ timeCall.pc = "call"

TimeReturns(r) == timeCall' = [timeCall EXCEPT !.pc = "returned", !.ret = r]

\* part_004:131-171
CallWebVTTTimestamp ==
    /\ TimeCalled("parseWebVTTTimestamp")
    /\ TimeReturns(TimestampReturn(parseWebVTTTimestamp(timeCall.text)))
    /\ UNCHANGED <<covVars, parVars, fileVars, cliVars, conVars>>

\* srt.go:128-153
CallSRTTimestamp ==
    /\ TimeCalled("parseSRTTimestamp")
    /\ TimeReturns(TimestampReturn(parseSRTTimestamp(timeCall.text)))
    /\ UNCHANGED <<covVars, parVars, fileVars, cliVars, conVars>>

\* part_004:99-127
CallWebVTTTimeline ==
    /\ TimeCalled("parseWebVTTTimeline")
    /\ TimeReturns(parseWebVTTTimeline(timeCall.text))
    /\ UNCHANGED <<covVars, parVars, fileVars, cliVars, conVars>>

\* srt.go:99-124
CallSRTTimeline ==
    /\ TimeCalled("parseSRTTimeline")
    /\ TimeReturns(parseSRTTimeline(timeCall.text))
    /\ UNCHANGED <<covVars, parVars, fileVars, cliVars, conVars>>

NextTimes ==
    \/ CallWebVTTTimestamp
    \/ CallSRTTimestamp
    \/ CallWebVTTTimeline
    \/ CallSRTTimeline

SpecTimes == InitTimes /\ [][NextTimes]_vars

-----------------------------------------------------------------------------
(* Properties of the coverage engine *)

Returned == pc = "done"

AllWellFormed ==
    \A k \in DOMAIN captions : captions[k].StartTime <= captions[k].EndTime

\* Some caption is active during the whole millisecond [t, t+1].
Active(t) ==
    \E k \in DOMAIN captions :
        captions[k].StartTime <= t /\ t + 1 <= captions[k].EndTime

\* The length of the union of the caption intervals inside [startTime, endTime].
UnionLength == Cardinality({t \in startTime..(endTime - 1) : Active(t)})

\* The captions that reach into the window, and the sum of their clipped lengths.
InWindow == {k \in DOMAIN captions : ~OutsideRange(captions[k], startTime, endTime)}

RECURSIVE ClippedSum(_)
ClippedSum(ks) ==
    IF ks = {} THEN 0
    ELSE LET k == CHOOSE x \in ks : TRUE
             seg == Clip(captions[k], startTime, endTime)
         IN  (seg.end - seg.start) + ClippedSum(ks \ {k})

\* C1: with every caption's start <= end and endTime > startTime, the covered
\* time before rounding is the length of the union of the caption intervals
\* clipped to the window: time under several captions counts once.
C1_CoveredTimeIsUnionLength ==
    (Returned /\ AllWellFormed) => coveredTime = UnionLength

\* The call returned for well-formed captions of which two share time inside
\* the window, so that adding up the clipped captions would count it twice.
C1_Witness ==
    /\ Returned
    /\ AllWellFormed
    /\ Cardinality(InWindow) >= 2
    /\ coveredTime > 0
    /\ ClippedSum(InWindow) > coveredTime

\* C2: a returned result whose actual_coverage equals minCoverage is valid.
C2_ReportedEqualImpliesValid ==
    (Returned /\ result.Data["actual_coverage"] = minCoverage) => result.Valid

\* C3: endTime <= startTime (equality included) ends in an error beside the
\* empty ValidationResult whatever the captions and minCoverage are, and
\* endTime > startTime never ends in an error.
C3_ErrorIffInvalidRange ==
    /\ endTime <= startTime => pc \in {"entry", "error"}
    /\ endTime > startTime => pc # "error" /\ err = ""
    /\ pc = "error" => err # "" /\ result = EmptyResult
    /\ pc = "done" => err = ""

\* The call was rejected for endTime = startTime, with captions to look at.
C3_Witness ==
    /\ pc = "error"
    /\ endTime = startTime
    /\ Len(captions) > 0
    /\ minCoverage = 0

\* The captions, in some order, form a chain from startTime to endTime: the
\* first starts at startTime, each next starts where the one before ends, the
\* last ends at endTime.
Tiles ==
    /\ Len(captions) >= 1
    /\ AllWellFormed
    /\ \E p \in Permutations(DOMAIN captions) :
          /\ captions[p[1]].StartTime = startTime
          /\ captions[p[Len(captions)]].EndTime = endTime
          /\ \A k \in 1..(Len(captions) - 1) :
                captions[p[k + 1]].StartTime = captions[p[k]].EndTime

\* C4 as stated: captions tiling the window, in any order, are reported with
\* actual_coverage = 100 and covered_time = total_time (covered_time is in
\* hundredths of a second, total_time in ms).
C4_TilingReportsTotalTime ==
    (Returned /\ Tiles) =>
        /\ result.Data["actual_coverage"] = 10000
        /\ result.Data["covered_time"] * 10 = result.Data["total_time"]

\* C4 amended: captions tiling the window, in any order, are reported with
\* actual_coverage = 100; the covered time before rounding is total_time, and
\* the covered_time field is total_time rounded to two decimals.
C4_TilingCoversWindow ==
    (Returned /\ Tiles) =>
        /\ result.Data["actual_coverage"] = 10000
        /\ coveredTime = result.Data["total_time"]
        /\ result.Data["covered_time"] = RoundDiv(result.Data["total_time"], 10)

\* Two or more captions given out of time order tile the window.
C4_Witness ==
    /\ Returned
    /\ Tiles
    /\ Len(captions) >= 2
    /\ captions[1].StartTime > captions[2].StartTime

\* No caption has EndTime > startTime and StartTime < endTime.
NoOverlap ==
    \A k \in DOMAIN captions :
        ~(captions[k].EndTime > startTime /\ captions[k].StartTime < endTime)

\* C5: with endTime > startTime and no caption reaching into the window (an
\* empty sequence included) the call returns without error, covered_time = 0
\* and actual_coverage = 0, and valid holds exactly when minCoverage <= 0.
C5_NoOverlapIsZeroCoverage ==
    /\ (endTime > startTime /\ NoOverlap) => pc # "error"
    /\ (Returned /\ NoOverlap) =>
          /\ err = ""
          /\ coveredTime = 0
          /\ result.Data["covered_time"] = 0
          /\ result.Data["actual_coverage"] = 0
          /\ result.Valid <=> minCoverage <= 0

\* The call returned for captions that all lie outside the window, with a
\* positive threshold.
C5_Witness ==
    /\ Returned
    /\ Len(captions) >= 1
    /\ NoOverlap
    /\ minCoverage > 0
    /\ ~result.Valid

Scenario(s, e, m) ==
    /\ captions = TestCaptions
    /\ startTime = s
    /\ endTime = e
    /\ minCoverage = m

\* C6: captions [10,20],[25,35],[40,55], window 10..55, minCoverage 66.6:
\* total_time 45, covered_time 35, actual_coverage 77.78, valid.
C6_ScenarioOne ==
    (Returned /\ Scenario(10000, 55000, 6660)) =>
        /\ result.Data["total_time"] = 45000
        /\ result.Data["covered_time"] = 3500
        /\ result.Data["actual_coverage"] = 7778
        /\ result.Valid

C6_Witness == Returned /\ Scenario(10000, 55000, 6660)

\* C7: the same captions, window 5..60, minCoverage 80: actual_coverage
\* 63.64, not valid, missing_coverage_seconds present and positive (9).
C7_ScenarioTwo ==
    (Returned /\ Scenario(5000, 60000, 8000)) =>
        /\ result.Data["actual_coverage"] = 6364
        /\ ~result.Valid
        /\ "missing_coverage_seconds" \in DOMAIN result.Data
        /\ result.Data["missing_coverage_seconds"] > 0
        /\ result.Data["missing_coverage_seconds"] = 900

C7_Witness == Returned /\ Scenario(5000, 60000, 8000)

\* C8: a returned result has type caption_coverage and the six fields
\* required_coverage = minCoverage, actual_coverage, start_time = startTime,
\* end_time = endTime, covered_time, total_time = endTime - startTime;
\* missing_coverage_seconds is present exactly when valid is false.
C8_ResultFields ==
    Returned =>
        /\ result.Type = "caption_coverage"
        /\ BaseFields \subseteq DOMAIN result.Data
        /\ DOMAIN result.Data \subseteq BaseFields \cup {"missing_coverage_seconds"}
        /\ ("missing_coverage_seconds" \in DOMAIN result.Data) <=> ~result.Valid
        /\ result.Data["required_coverage"] = minCoverage
        /\ result.Data["start_time"] = startTime
        /\ result.Data["end_time"] = endTime
        /\ result.Data["total_time"] = endTime - startTime

\* A valid result without the field was returned.
C8_Witness ==
    /\ Returned
    /\ result.Valid
    /\ Len(captions) >= 1
    /\ "missing_coverage_seconds" \notin DOMAIN result.Data

\* C23: no step of ValidateCoverage, on the path that returns a result or on
\* the one that returns the error, changes the caller's captions: their
\* number, their order and the four fields of each stay as they were.
C23_CaptionsUnchanged == [][captions' = captions]_vars

\* ValidateCoverage returned for captions given out of order: the segments
\* were sorted, the captions are in the order they were given in.
C23_Witness ==
    /\ pc = "done"
    /\ Len(captions) = 3
    /\ captions[1] = TestCaptions[3]
    /\ captions[3] = TestCaptions[1]
    /\ Len(coveredSegments) = 3
    /\ coveredSegments[1].start = TestCaptions[1].StartTime

\* The caption sequence in every order.
Orders(cs) ==
    { [k \in DOMAIN cs |-> cs[f[k]]] :
        f \in { g \in [DOMAIN cs -> DOMAIN cs] :
                  \A j \in DOMAIN cs : \A k \in DOMAIN cs : j # k => g[j] # g[k] } }

SameCoverage(r, q) ==
    /\ r.Valid = q.Valid
    /\ r.Data["covered_time"] = q.Data["covered_time"]
    /\ r.Data["actual_coverage"] = q.Data["actual_coverage"]

\* C35: ValidateCoverage returns the same covered_time, actual_coverage and
\* valid for the captions in any other order, whether or not every caption
\* has start <= end.
C35_OrderDoesNotMatter ==
    Returned =>
        \A cs \in Orders(captions) :
            SameCoverage(result,
                         ValidateCoverage(CoverageLocals(cs, startTime, endTime,
                                                         minCoverage)).result)

\* Some caption with start <= end is active during the millisecond [t, t+1].
ActiveWellFormed(t) ==
    \E k \in DOMAIN captions :
        /\ captions[k].StartTime <= captions[k].EndTime
        /\ captions[k].StartTime <= t
        /\ t + 1 <= captions[k].EndTime

\* C36: whatever the captions are, inverted ones included, ValidateCoverage
\* returns for endTime > startTime a covered time between 0 and total_time, an
\* actual_coverage between 0 and 100, and no less covered time than the
\* captions with start <= end cover by themselves.
C36_CoverageWithinBounds ==
    Returned =>
        /\ 0 <= coveredTime
        /\ coveredTime <= totalTime
        /\ 0 <= result.Data["covered_time"]
        /\ 0 <= result.Data["actual_coverage"]
        /\ result.Data["actual_coverage"] <= 10000
        /\ coveredTime >=
              Cardinality({t \in startTime..(endTime - 1) : ActiveWellFormed(t)})

\* The merged segments lie in the window, none is inverted, and each starts
\* after the one before it ends.
MergedApart ==
    /\ \A k \in DOMAIN merged :
          /\ startTime <= merged[k].start
          /\ merged[k].start <= merged[k].end
          /\ merged[k].end <= endTime
    /\ \A k \in 1..(Len(merged) - 1) : merged[k].end < merged[k + 1].start

\* A step of the sweep leaves every merged segment but the last as it is, and
\* moves at most the end of the last one, outwards.
SweepExtendsLast ==
    (pc = "merge" /\ pc' = "merge" /\ AllWellFormed) =>
        /\ Len(merged') >= Len(merged)
        /\ \A k \in 1..(Len(merged) - 1) : merged'[k] = merged[k]
        /\ merged'[Len(merged)].start = merged[Len(merged)].start
        /\ merged'[Len(merged)].end >= merged[Len(merged)].end

\* C37: for captions with start <= end, the merged segments of
\* ValidateCoverage are, during the sweep and after it, in the window, not
\* inverted, ordered by start and apart from each other (neither overlapping
\* nor touching), and a step of the sweep changes at most the last one.
C37_MergedSegmentsApart ==
    /\ [](AllWellFormed => MergedApart /\ (pc \in {"sum", "done"} =>
                                             coveredSegments = merged))
    /\ [][SweepExtendsLast]_vars

\* Two captions that touch inside the window were merged into one segment.
C37_Witness ==
    /\ Returned
    /\ Len(captions) = 2
    /\ startTime <= captions[1].StartTime
    /\ captions[1].StartTime < captions[1].EndTime
    /\ captions[2].StartTime = captions[1].EndTime
    /\ captions[2].StartTime < captions[2].EndTime
    /\ captions[2].EndTime <= endTime
    /\ Len(merged) = 1
    /\ merged[1].start = captions[1].StartTime
    /\ merged[1].end = captions[2].EndTime

-----------------------------------------------------------------------------
(* Properties of the parsers *)

WebVTTParsers == {"parseWebVTT", "parseChunkedWebVTT"}

MissingHeader(p) ==
    /\ vtt[p].phase = "returned"
    /\ vtt[p].err = "missing WEBVTT header"
    /\ vtt[p].ret = <<>>

C10_MissingBlankLineGivesTwoCaptions ==
    (input = MissingBlankLine \o <<EndOfInput>> /\ srt.parseSRT.phase = "returned") =>
        /\ srt.parseSRT.err = ""
        /\ Len(srt.parseSRT.ret) = 2
        /\ srt.parseSRT.ret[1].StartTime = 1000
        /\ srt.parseSRT.ret[1].EndTime = 2000
        /\ srt.parseSRT.ret[1].Text = TextHello
        /\ srt.parseSRT.ret[2].StartTime = 3000
        /\ srt.parseSRT.ret[2].EndTime = 4000
        /\ srt.parseSRT.ret[2].Text = TextWorld

-----------------------------------------------------------------------------
(* Well-formed inputs, read without the parsers' operators: the lines are   *)
(* cut into blocks at the empty lines and every timeline is looked up in a  *)
(* table of the timelines the inputs hold.                                  *)

SRTParsers == {"parseSRT", "parseChunkedSRT"}

WebVTTTimelines ==
    { [text |-> TextVTTShort, start |-> 1000, end |-> 2000],
      [text |-> TextVTTSettings, start |-> 3000, end |-> 4000] }

SRTTimelines ==
    { [text |-> TextSRTFirst, start |-> 1000, end |-> 2000],
      [text |-> TextSRTSecond, start |-> 3000, end |-> 4000] }

\* The texts of the lines read so far.
LinesRead ==
    IF input = <<>> THEN <<>> ELSE [k \in 1..Len(input) |-> input[k].text]

AllButLast(s) == SubSeq(s, 1, Len(s) - 1)

\* Every line was read and then the end of the input.
ReadToEnd ==
    /\ input # <<>>
    /\ input[Len(input)] = EndOfInput
    /\ \A k \in 1..(Len(input) - 1) : input[k].kind = "line"

\* Only lines were read so far.
ReadingLines == input # <<>> /\ \A k \in 1..Len(input) : input[k].kind = "line"

\* A text line, or an identifier line: not white space only, not a timeline.
IsText(l) == (\E k \in DOMAIN l : l[k] \notin WhiteSpace) /\ ~Contains(l, Arrow)

IsTimeline(table, l) == \E t \in table : t.text = l

\* The number of lines before the first empty line.
BlockLength(ls) ==
    Least({k \in 1..(Len(ls) + 1) : k > Len(ls) \/ ls[k] = <<>>}) - 1

\* The maximal runs of non-empty lines.
RECURSIVE Blocks(_)
RECURSIVE BlocksAt(_, _)
BlocksAt(ls, n) == <<SubSeq(ls, 1, n)>> \o Blocks(SubSeq(ls, n + 1, Len(ls)))

Blocks(ls) ==
    IF ls = <<>> THEN <<>>
    ELSE IF Head(ls) = <<>> THEN Blocks(Tail(ls))
    ELSE BlocksAt(ls, BlockLength(ls))

\* A timeline and one or more text lines.
TimedCue(table, cue) ==
    /\ Len(cue) >= 2
    /\ IsTimeline(table, cue[1])
    /\ \A k \in 2..Len(cue) : IsText(cue[k])

\* A Format A block without its optional identifier line.
WebVTTCue(block) ==
    IF IsTimeline(WebVTTTimelines, block[1]) THEN block ELSE Tail(block)

WellFormedWebVTTBlock(block) ==
    /\ IsTimeline(WebVTTTimelines, block[1]) \/ IsText(block[1])
    /\ TimedCue(WebVTTTimelines, WebVTTCue(block))

\* A Format B block without its index line.
SRTCue(block) == Tail(block)

WellFormedSRTBlock(block) ==
    /\ AllDigits(block[1])
    /\ TimedCue(SRTTimelines, SRTCue(block))

WebVTTBody(ls) == Blocks(SubSeq(ls, 3, Len(ls)))

\* Format A: the header, a blank line, blocks.
WellFormedWebVTT(ls) ==
    /\ Len(ls) >= 2
    /\ HasPrefix(ls[1], Signature)
    /\ ls[2] = <<>>
    /\ \A k \in DOMAIN WebVTTBody(ls) : WellFormedWebVTTBlock(WebVTTBody(ls)[k])

\* Format B: blocks.
WellFormedSRT(ls) ==
    \A k \in DOMAIN Blocks(ls) : WellFormedSRTBlock(Blocks(ls)[k])

\* What a prefix of a well-formed input may still lack.
WebVTTCompletions ==
    { <<>>, <<TextBlank>>, <<TextHello>>, <<TextVTTShort, TextHello>> }

SRTCompletions ==
    { <<>>, <<TextHello>>, <<TextSRTFirst, TextHello>> }

StartsWellFormedWebVTT(ls) == \E c \in WebVTTCompletions : WellFormedWebVTT(ls \o c)

StartsWellFormedSRT(ls) == \E c \in SRTCompletions : WellFormedSRT(ls \o c)

\* The times of the cue's timeline, and its text lines joined by a newline.
CaptionOfCue(caption, table, cue) ==
    \E t \in table :
        /\ t.text = cue[1]
        /\ caption.StartTime = t.start
        /\ caption.EndTime = t.end
        /\ caption.Text = Join(Tail(cue), NewLine)

\* One caption per block, in the order of the blocks.
WebVTTCaptionsOf(ret, blocks) ==
    /\ Len(ret) = Len(blocks)
    /\ \A k \in DOMAIN blocks :
          CaptionOfCue(ret[k], WebVTTTimelines, WebVTTCue(blocks[k]))

SRTCaptionsOf(ret, blocks) ==
    /\ Len(ret) = Len(blocks)
    /\ \A k \in DOMAIN blocks :
          CaptionOfCue(ret[k], SRTTimelines, SRTCue(blocks[k]))

WithinCeiling == \A k \in DOMAIN input : input[k].kind # "long"

\* The same locals and the same return value; both failed or both succeeded.
Agree(a, b) ==
    /\ [a EXCEPT !.err = ""] = [b EXCEPT !.err = ""]
    /\ a.err = "" <=> b.err = ""

AllParsers == WebVTTParsers \cup SRTParsers

Locals(p) == IF p \in WebVTTParsers THEN vtt[p] ELSE srt[p]

IsRunning(p) == IF p \in WebVTTParsers THEN DOMAIN vtt # {} ELSE DOMAIN srt # {}

\* C14: a parser that returns an error returns no captions, whatever it had
\* completed before; ParseCaptionsFile and ParseLargeCaptionsFile returning
\* an error return no captions and an empty format tag.
C14_ErrorMeansNoResult ==
    /\ \A p \in AllParsers :
          (IsRunning(p) /\ Locals(p).phase = "returned" /\ Locals(p).err # "")
              => Locals(p).ret = <<>>
    /\ (Calling("returned") /\ call.err # "")
          => call.captions = <<>> /\ call.tag = ""

\* ParseCaptionsFile returned an error, no captions and no tag for an SRT
\* file whose first cue parseSRT had completed before the failing line.
C14_Witness ==
    /\ Calling("returned")
    /\ call.fn = ParseCaptionsFile
    /\ call.format = FormatSRT
    /\ call.err # ""
    /\ call.captions = <<>>
    /\ call.tag = ""
    /\ DOMAIN srt # {}
    /\ Len(srt.parseSRT.captions) >= 1
    /\ srt.parseSRT.ret = <<>>

\* C15: the k-th caption that parseWebVTT or parseChunkedWebVTT returns has
\* Index = k, whatever identifier lines were read and however each cue was
\* completed.
C15_SequentialIndex ==
    \A p \in WebVTTParsers :
        /\ \A k \in DOMAIN vtt[p].ret : vtt[p].ret[k].Index = k
        /\ \A k \in DOMAIN vtt[p].captions : vtt[p].captions[k].Index = k

\* parseWebVTT returned three captions: the first completed by a timeline that
\* follows the identifier line "7", the others by blank lines.
C15_Witness ==
    /\ AllButLast(input) = WebVTTMissingBlankLine
    /\ vtt.parseWebVTT.phase = "returned"
    /\ vtt.parseWebVTT.err = ""
    /\ Len(vtt.parseWebVTT.ret) = 3
    /\ vtt.parseWebVTT.ret[3].Index = 3

\* The lines read so far start with k - 1 empty lines and a line that is not
\* empty.
FirstNonEmptyLine(k) ==
    /\ k \in DOMAIN input
    /\ input[k].kind = "line"
    /\ input[k].text # <<>>
    /\ \A j \in 1..(k - 1) : input[j] = Line(TextBlank)

\* C24: parseWebVTT and parseChunkedWebVTT look for the signature on the first
\* line that is not empty: leading empty lines followed by a line starting with
\* WEBVTT pass the header check, and the missing-header error is returned
\* exactly when the first non-empty line does not start with WEBVTT.
C24_FirstNonEmptyLineIsChecked ==
    \A p \in WebVTTParsers :
        /\ (\E k \in DOMAIN input :
               FirstNonEmptyLine(k) /\ HasPrefix(input[k].text, Signature))
              => ~MissingHeader(p)
        /\ MissingHeader(p) =>
              \E k \in DOMAIN input :
                  FirstNonEmptyLine(k) /\ ~HasPrefix(input[k].text, Signature)

\* Line j is a timeline of the cue section and every line after it, up to
\* the last line read, is a text line of its cue: the cue of line j is pending
\* when the last line is read.
PendingSince(j) ==
    /\ j \in 3..(Len(input) - 1)
    /\ \E h \in 2..(j - 1) :
          input[h] = Line(TextBlank) /\ HasPrefix(input[1].text, Signature)
    /\ IsTimeline(WebVTTTimelines, input[j].text)
    /\ \A k \in (j + 1)..(Len(input) - 1) :
          input[k].text # <<>> /\ ~Contains(input[k].text, Arrow)

TimesOf(table, l) == CHOOSE t \in table : t.text = l

\* The last line read is a timeline read while the cue of line j was pending:
\* that cue is the last caption, with the next index, its own times and the
\* lines between the two timelines as text; the new cue has the times of the
\* last line and no text line yet.
FlushedBy(st, j) ==
    /\ st.captions # <<>>
    /\ st.captions[Len(st.captions)] =
          Caption(Len(st.captions),
                  TimesOf(WebVTTTimelines, input[j].text).start,
                  TimesOf(WebVTTTimelines, input[j].text).end,
                  Join([k \in 1..(Len(input) - 1 - j) |-> input[j + k].text], NewLine))
    /\ st.inCaption
    /\ st.textLines = <<>>
    /\ st.currentCaption.StartTime =
          TimesOf(WebVTTTimelines, input[Len(input)].text).start
    /\ st.currentCaption.EndTime = TimesOf(WebVTTTimelines, input[Len(input)].text).end

\* C25: when parseWebVTT or parseChunkedWebVTT reads a timeline while a cue is
\* pending, the pending cue is appended with the text lines read since its
\* timeline and the next index, and the new cue starts without text lines:
\* no line of the earlier cue goes into the later one, and the earlier
\* caption comes first.
C25_TimelineCompletesPendingCue ==
    \A p \in WebVTTParsers :
        \A j \in DOMAIN input :
            (/\ ReadingLines
             /\ PendingSince(j)
             /\ IsTimeline(WebVTTTimelines, input[Len(input)].text))
                => FlushedBy(vtt[p], j)

\* The second timeline of the script without the blank line was read: the
\* first cue was appended with "Hello" and the identifier line "7".
C25_Witness ==
    /\ input = SubSeq(WebVTTMissingBlankLine, 1, 6)
    /\ \A p \in WebVTTParsers :
          /\ Len(vtt[p].captions) = 1
          /\ vtt[p].captions[1].Text = TextHello \o <<"\n">> \o TextSeven
          /\ vtt[p].textLines = <<>>
          /\ vtt[p].currentCaption.StartTime = 3000

\* The lines are well-formed blocks, an empty line, and one more line that
\* is neither an index nor a timeline.
LooseLineAfterBlocks(ls) ==
    /\ Len(ls) >= 3
    /\ ls[Len(ls) - 1] = <<>>
    /\ IsText(ls[Len(ls)])
    /\ ~AllDigits(ls[Len(ls)])
    /\ WellFormedSRT(SubSeq(ls, 1, Len(ls) - 2))
    /\ Blocks(SubSeq(ls, 1, Len(ls) - 2)) # <<>>

\* C26: a line that parseSRT or parseChunkedSRT meets where an index is
\* expected, that is neither an integer nor a timeline, after at least one
\* caption was appended, goes into the text of the last caption and adds no
\* caption to the result.
C26_LooseLineJoinsPreviousCaption ==
    \A p \in SRTParsers :
        (/\ srt[p].phase = "returned"
         /\ ReadToEnd
         /\ LooseLineAfterBlocks(AllButLast(LinesRead)))
            => /\ srt[p].err = ""
               /\ Len(srt[p].ret) = Len(Blocks(SubSeq(LinesRead, 1, Len(LinesRead) - 3)))
               /\ Contains(srt[p].ret[Len(srt[p].ret)].Text, LinesRead[Len(LinesRead) - 1])

\* The index lines of the explored inputs and their values.
IndexLines ==
    { [text |-> TextOne, val |-> 1], [text |-> TextTwo, val |-> 2],
      [text |-> TextSeven, val |-> 7] }

IsIndexLine(l) == \E x \in IndexLines : x.text = l

IndexValue(l) == (CHOOSE x \in IndexLines : x.text = l).val

\* The timelines of the explored inputs that parseSRTTimeline does not refuse.
AcceptedSRTTimelines == {TextSRTFirst, TextSRTSecond, TextSRTShort, TextSRTBad}

IsBlank(l) == \A k \in DOMAIN l : l[k] \in WhiteSpace

\* Only lines were read, and the last one where an index is expected: as the
\* first line, or after a blank line.
LastReadExpectingIndex ==
    /\ ReadingLines
    /\ Len(input) > 1 => IsBlank(input[Len(input) - 1].text)

LastLine == input[Len(input)].text

\* C27: a timeline that parseSRT or parseChunkedSRT reads where an index is
\* expected starts a cue whose Index is the number of captions so far plus one
\* and whose times are the timeline's, and text is expected next; an integer
\* line read there starts a cue with that integer as Index, and the captions
\* of a well-formed input carry the integers of their index lines.
C27_IndexOfCue ==
    \A p \in SRTParsers :
        /\ (LastReadExpectingIndex /\ LastLine \in AcceptedSRTTimelines)
              => /\ srt[p].phase = "scan"
                 /\ srt[p].parseState = 2
                 /\ srt[p].currentCaption.Index = Len(srt[p].captions) + 1
                 /\ IsTimeline(SRTTimelines, LastLine) =>
                       /\ srt[p].currentCaption.StartTime =
                             TimesOf(SRTTimelines, LastLine).start
                       /\ srt[p].currentCaption.EndTime =
                             TimesOf(SRTTimelines, LastLine).end
        /\ (LastReadExpectingIndex /\ IsIndexLine(LastLine))
              => /\ srt[p].phase = "scan"
                 /\ srt[p].parseState = 1
                 /\ srt[p].currentCaption.Index = IndexValue(LastLine)
        /\ (srt[p].phase = "returned" /\ ReadToEnd
              /\ WellFormedSRT(AllButLast(LinesRead)))
              => \A k \in DOMAIN srt[p].ret :
                    srt[p].ret[k].Index = IndexValue(Blocks(AllButLast(LinesRead))[k][1])

\* After a first caption, a timeline was read where the index of the second
\* block was expected: the pending cue has index 2 and the timeline's times.
C27_Witness ==
    /\ input = << Line(TextSeven), Line(TextSRTFirst), Line(TextHello), Line(TextBlank),
                  Line(TextSRTSecond) >>
    /\ \A p \in SRTParsers :
          /\ Len(srt[p].captions) = 1
          /\ srt[p].captions[1].Index = 7
          /\ srt[p].currentCaption.Index = 2
          /\ srt[p].currentCaption.StartTime = 3000
          /\ srt[p].parseState = 2

\* Line s is an index line read where an index is expected, the line after it
\* is a text line, and no line from there to the one before the last event
\* read is blank.
UntimedBlockSince(s) ==
    /\ s \in 1..(Len(input) - 2)
    /\ \A k \in 1..(Len(input) - 1) : input[k].kind = "line"
    /\ s > 1 => IsBlank(input[s - 1].text)
    /\ IsIndexLine(input[s].text)
    /\ IsText(input[s + 1].text)
    /\ \A k \in (s + 2)..(Len(input) - 1) : ~IsBlank(input[k].text)

\* The block's index, no times, and every line after the index line as text.
UntimedCaption(s) ==
    Caption(IndexValue(input[s].text), 0, 0,
            Join([k \in 1..(Len(input) - 1 - s) |-> input[s + k].text], NewLine))

LastOf(seq) == seq[Len(seq)]

\* C28: a line without the arrow read by parseSRT or parseChunkedSRT right
\* after an index line does not fail the parse: it is the first text line of
\* the cue and text is expected next; the caption appended at the blank line
\* or at the end of the input has the index of the index line, StartTime =
\* EndTime = 0 and every later line of the block, timelines included, as text.
C28_UntimedBlock ==
    \A p \in SRTParsers :
        /\ (/\ ReadingLines
            /\ Len(input) >= 2
            /\ Len(input) > 2 => IsBlank(input[Len(input) - 2].text)
            /\ IsIndexLine(input[Len(input) - 1].text)
            /\ IsText(LastLine))
              => /\ srt[p].phase = "scan"
                 /\ srt[p].parseState = 2
                 /\ srt[p].textLines = <<LastLine>>
        /\ \A s \in DOMAIN input :
              (UntimedBlockSince(s) /\ input[Len(input)] = Line(TextBlank))
                  => /\ srt[p].phase = "scan"
                     /\ srt[p].captions # <<>>
                     /\ LastOf(srt[p].captions) = UntimedCaption(s)
        /\ \A s \in DOMAIN input :
              (UntimedBlockSince(s) /\ input[Len(input)] = EndOfInput)
                  => /\ srt[p].phase = "returned"
                     /\ srt[p].err = ""
                     /\ srt[p].ret # <<>>
                     /\ LastOf(srt[p].ret) = UntimedCaption(s)

\* The block "7", "Hello", a timeline: one caption with index 7, no times and
\* the timeline as the second line of its text.
C28_Witness ==
    /\ input = <<Line(TextSeven), Line(TextHello), Line(TextSRTFirst), EndOfInput>>
    /\ \A p \in SRTParsers :
          srt[p].ret = <<Caption(7, 0, 0, TextHello \o <<"\n">> \o TextSRTFirst)>>

\* The timelines of the explored inputs with three components in each
\* timestamp, one of them not a number.
NonNumericSRTTimelines == {TextSRTInvalid}

\* The timelines of the explored inputs with three components in each
\* timestamp, one of them a number too large for a float64.
OutOfRangeSRTTimelines == {TextSRTRange}

\* The last line read is one of the timelines, the line before it an index
\* line.
AfterIndex(timelines) ==
    /\ ReadingLines
    /\ Len(input) >= 2
    /\ LastLine \in timelines
    /\ IsIndexLine(input[Len(input) - 1].text)

\* The parser returned an error that is not the scanner's.
ParseFailed(p) ==
    /\ srt[p].phase = "returned"
    /\ srt[p].err # ""
    /\ input[Len(input)].kind # "long"

\* C29 as stated: unless the scanner fails, parseSRT and parseChunkedSRT
\* return an error only on reading, right after an index line, a timeline with
\* a timestamp component that is not a number.
C29_OnlyNonNumericTimelineFails ==
    \A p \in SRTParsers :
        ParseFailed(p) => AfterIndex(NonNumericSRTTimelines) /\ srt[p].parseState = 1

\* C29 amended: unless the scanner fails, parseSRT and parseChunkedSRT return
\* an error only on reading, right after an index line, a timeline with a
\* timestamp component that is not a number or is a number too large for a
\* float64; whatever else the lines are, the parse ends without error.
C29_OnlyTimelineAfterIndexFails ==
    \A p \in SRTParsers :
        ParseFailed(p) =>
            /\ AfterIndex(NonNumericSRTTimelines \cup OutOfRangeSRTTimelines)
            /\ srt[p].parseState = 1

\* The parse failed on "1e999:00:01,000 --> ..." after the index line of a
\* second block, with ParseFloat's range error.
C29_Witness ==
    /\ input = << Line(TextSRTFirst), Line(TextHello), Line(TextBlank),
                  Line(TextOne), Line(TextSRTRange) >>
    /\ \A p \in SRTParsers :
          /\ srt[p].phase = "returned"
          /\ srt[p].err = "value out of range"
          /\ srt[p].ret = <<>>

\* The timelines of the explored inputs with timestamps MM:SS,mmm:
\* "01:02,500 --> 01:03,000" is 62.5 s to 63 s.
ShortSRTTimelines == { [text |-> TextSRTShort, start |-> 62500, end |-> 63000] }

\* C30: parseSRTTimestamp reads MM:SS,mmm as minutes*60 + seconds: the cue that
\* parseSRT or parseChunkedSRT starts on a timeline with such timestamps has
\* these times.
C30_MinutesSecondsTimestamp ==
    \A p \in SRTParsers :
        (LastReadExpectingIndex /\ IsTimeline(ShortSRTTimelines, LastLine))
            => /\ srt[p].currentCaption.StartTime =
                     TimesOf(ShortSRTTimelines, LastLine).start
               /\ srt[p].currentCaption.EndTime = TimesOf(ShortSRTTimelines, LastLine).end

-----------------------------------------------------------------------------
(* Properties of the format detection.  What a file is, is read off the     *)
(* file itself: where the signature stands among its bytes, which of the    *)
(* explored extensions and `file` outputs name SubRip, and which of the     *)
(* explored contents start with an index line and an HH:MM:SS,mmm timeline. *)

\* WEBVTT stands within the first 100 bytes of the file.
SignatureInHeader ==
    \E k \in 1..(HeaderBytes - Len(Signature) + 1) :
        /\ k + Len(Signature) - 1 <= Len(Content(file.lines))
        /\ SubSeq(Content(file.lines), k, k + Len(Signature) - 1) = Signature

\* The extension is .srt, in either case.
ExtensionIsSRT == file.ext \in {TextExtSRT, TextExtSRTUpper}

\* The `file` command named the file SubRip.
HintIsSubRip == file.output = TextFileSubRip

\* The contents that start with digits, a line end (or a blank line) and an
\* HH:MM:SS,mmm timeline.
StartsWithIndexAndTimeline ==
    file.lines \in { ThreeSRTBlocks, SRTLateFailure, MissingBlankLine,
                     SignatureInText, SignatureAfterHeader, IndexBlankTimeline }

\* DetectCaptionFormat read the file and decided.
DetectionDone ==
    /\ DOMAIN call # {}
    /\ call.phase # "detect"
    /\ ~(call.format = "" /\ call.err = ErrIO)

\* C16: DetectCaptionFormat answers WebVTT exactly when WEBVTT stands within
\* the first 100 bytes, whatever the extension, the hint and the rest of the
\* header are; it answers SRT exactly when the signature is absent there and
\* the extension is .srt, or the `file` output names SubRip, or the header
\* starts with an index line and a timeline.
C16_DetectionRulesInOrder ==
    DetectionDone =>
        /\ call.format = FormatWebVTT <=> SignatureInHeader
        /\ call.format = FormatSRT <=>
              /\ ~SignatureInHeader
              /\ ExtensionIsSRT \/ HintIsSubRip \/ StartsWithIndexAndTimeline

\* A file named .srt that `file` calls SubRip and that starts with an index
\* line and a timeline was detected as WebVTT for the WEBVTT in its text.
C16_Witness ==
    /\ DetectionDone
    /\ file.ext = TextExtSRT
    /\ file.output = TextFileSubRip
    /\ file.lines = SignatureInText
    /\ call.format = FormatWebVTT

NoParserInvoked == input = <<>> /\ vtt = <<>> /\ srt = <<>>

NoRuleMatches ==
    /\ ~SignatureInHeader
    /\ ~ExtensionIsSRT
    /\ ~HintIsSubRip
    /\ ~StartsWithIndexAndTimeline

\* C17: when no rule matches, DetectCaptionFormat returns ErrUnsupportedFormat
\* and an empty format, and only then; when the file cannot be opened or read
\* it returns that error and an empty format.  ParseCaptionsFile and
\* ParseLargeCaptionsFile then return the same error with no captions and no
\* tag, and no parser is invoked.
C17_UnsupportedOrUnreadable ==
    (DOMAIN call # {} /\ call.phase # "detect") =>
        /\ (NoRuleMatches /\ call.err # ErrIO) => call.err = ErrUnsupportedFormat
        /\ call.err = ErrUnsupportedFormat => NoRuleMatches
        /\ call.err \in {ErrUnsupportedFormat, ErrIO} =>
              /\ call.phase = "returned"
              /\ call.captions = <<>>
              /\ call.tag = ""
              /\ NoParserInvoked
        /\ call.err = ErrUnsupportedFormat => call.format = ""
        /\ call.format = "" => call.err \in {ErrUnsupportedFormat, ErrIO}

\* ParseLargeCaptionsFile returned ErrUnsupportedFormat for a .vtt file of
\* plain text that `file` calls ASCII text.
C17_Witness ==
    /\ DOMAIN call # {}
    /\ call.fn = ParseLargeCaptionsFile
    /\ call.phase = "returned"
    /\ call.err = ErrUnsupportedFormat
    /\ call.format = ""
    /\ file.ext = TextExtVTT
    /\ file.output = TextFileASCII
    /\ file.lines = PlainText
    /\ NoParserInvoked

-----------------------------------------------------------------------------
(* Properties of ExtractPlainText and of main *)

\* "xy"
TextOutsideTag ==
    <<"x", "y">>

\* Each explored text without its <...> spans.
WithoutSpans(text) ==
    CASE text = TextBold -> TextWorld
      [] text = TextTagOnly -> <<>>
      [] text = TextTagAcrossLines -> TextOutsideTag
      [] OTHER -> text

RECURSIVE JoinedBySpaces(_)
JoinedBySpaces(cs) ==
    IF cs = <<>> THEN <<>>
    ELSE IF Len(cs) = 1 THEN WithoutSpans(cs[1].Text)
    ELSE WithoutSpans(cs[1].Text) \o <<" ">> \o JoinedBySpaces(Tail(cs))

NoOuterSpace(s) ==
    s = <<>> \/ (s[1] \notin WhiteSpace /\ s[Len(s)] \notin WhiteSpace)

\* s is t without a run of white space at its start and one at its end.
IsTrimOf(s, t) ==
    \E a \in 0..Len(t) : \E b \in 0..(Len(t) - a) :
        /\ s = SubSeq(t, a + 1, Len(t) - b)
        /\ \A k \in 1..a : t[k] \in WhiteSpace
        /\ \A k \in (Len(t) - b + 1)..Len(t) : t[k] \in WhiteSpace

\* main called ExtractPlainText on the parsed captions.
Extracted == mainpc \notin {"idle", "start"} /\ args.early = "" /\ args.parsed.err = ""

\* C18: ExtractPlainText returns the captions' texts in order, each without
\* its <...> spans, joined by single spaces, without white space at either
\* end; newlines inside a text are kept and the captions are left as they were.
C18_PlainText ==
    Extracted =>
        /\ NoOuterSpace(plainText)
        /\ IsTrimOf(plainText, JoinedBySpaces(args.parsed.captions))
        /\ captions = args.parsed.captions

\* The text of the three captions of TestExtractPlainText: a tag pair removed,
\* the newline of the third text kept.
C18_Witness ==
    /\ Extracted
    /\ args.parsed.captions = TestCaptionsWithText
    /\ plainText = TextHello \o <<" ">> \o TextWorld \o <<" ">> \o TextTwoLines

\* The file was parsed and both validations were carried out or skipped.
Validated ==
    mainpc = "exited" /\ args.early = "" /\ args.parsed.err = "" /\ pc = "done"

\* C19: when the file parses, main exits with code 0 whether or not the
\* coverage or the language validation failed.
C19_ValidationFailuresExitZero == Validated => exitCode = 0

LanguageAnswered == args.apiURL # "" /\ args.reply.kind = "lang"

Types(out) == IF out = <<>> THEN <<>> ELSE [k \in 1..Len(out) |-> out[k].type]

CoverageType == IF ~result.Valid THEN <<"caption_coverage">> ELSE <<>>

LanguageType ==
    IF LanguageAnswered /\ args.reply.lang # "en-US"
    THEN <<"incorrect_language">> ELSE <<>>

\* C20: main writes nothing to stdout when the coverage is valid and the
\* language is valid or not validated; it writes the caption_coverage object
\* exactly when the coverage is not valid and the incorrect_language object
\* exactly when the API answered with a language other than en-US, the
\* coverage object first.
C20_OutputIsTheFailures ==
    /\ Validated =>
          /\ Types(stdout) = CoverageType \o LanguageType
          /\ \A k \in DOMAIN stdout :
                /\ stdout[k].type = "caption_coverage" => stdout[k].data = result.Data
                /\ stdout[k].type = "incorrect_language" =>
                      stdout[k].data.detected = args.reply.lang
    /\ Extracted =>
          \A j \in DOMAIN stdout : \A k \in DOMAIN stdout :
              (stdout[j].type = "incorrect_language" /\ stdout[k].type = "caption_coverage")
                  => k < j

\* main wrote the coverage object and then the language object.
C20_Witness ==
    /\ Validated
    /\ Types(stdout) = <<"caption_coverage", "incorrect_language">>
    /\ stdout[2].data.detected = "es-ES"

\* The API was called and the call failed: the request could not be built or
\* sent, the status was not 200, or the body was no JSON of the response.
LanguageCallFailed ==
    /\ args.apiURL # ""
    /\ args.reply.kind \in {"request", "unreachable", "status", "malformed"}

AfterLanguageStep == mainpc \in {"finish", "exited"}

\* C21: when the language API call fails, main skips the language validation:
\* stdout holds no incorrect_language object, it still holds the coverage
\* object if one was printed (and nothing else), and main exits with code 0.
C21_FailedCallSkipsLanguage ==
    (Extracted /\ pc = "done" /\ LanguageCallFailed /\ AfterLanguageStep) =>
        /\ \A k \in DOMAIN stdout : stdout[k].type # "incorrect_language"
        /\ Types(stdout) = CoverageType
        /\ mainpc = "exited" => exitCode = 0

\* main exited after a non-200 answer, the coverage object alone on stdout.
C21_Witness ==
    /\ Validated
    /\ args.apiURL # ""
    /\ args.reply.kind = "status"
    /\ Types(stdout) = <<"caption_coverage">>
    /\ exitCode = 0

-----------------------------------------------------------------------------
(* Properties of calls running side by side *)

\* The parser of call c run from its first Scan until it returns.
RECURSIVE ParseAlone(_, _, _)
ParseAlone(c, st, n) ==
    IF st.phase = "returned" THEN st
    ELSE ParseAlone(c, StepOf(c.fn, st, NextEvent([c EXCEPT !.read = n])), n + 1)

\* What the call returns when nothing else runs.
Alone(c) ==
    IF c.fn = "ValidateCoverage"
    THEN ValidateCoverage(CoverageLocals(c.st.captions, c.st.startTime, c.st.endTime,
                                         c.st.minCoverage))
    ELSE ParseAlone(c, StartOf(c.fn), 0)

Outcome(c, st) ==
    IF c.fn = "ValidateCoverage" THEN <<st.result, st.err>> ELSE <<st.ret, st.err>>

-----------------------------------------------------------------------------
(* Properties of the timestamp and timeline functions.  Values are in       *)
(* thousandths of a second.                                                 *)

\* The numeric components of the explored timestamps, written without a
\* comma, and their values.
PlainNumbers ==
    { [text |-> <<"0", "0">>, val |-> 0],
      [text |-> <<"0", "1">>, val |-> 1000],
      [text |-> <<"1">>, val |-> 1000],
      [text |-> <<"3", "0">>, val |-> 30000],
      [text |-> <<"0", "0", ".", "0", "0", "0">>, val |-> 0],
      [text |-> <<"0", "1", ".", "5", "0", "0">>, val |-> 1500] }

\* The numeric components written with a comma for the decimal point.
CommaNumbers ==
    { [text |-> <<"0", "0", ",", "0", "0", "0">>, val |-> 0],
      [text |-> <<"0", "1", ",", "5", "0", "0">>, val |-> 1500],
      [text |-> <<"0", ",", "5">>, val |-> 500] }

HasComma(c) == \E k \in DOMAIN c : c[k] = ","

\* Component k holds the first comma of the timestamp.
FirstCommaIn(parts, k) ==
    HasComma(parts[k]) /\ \A j \in 1..(k - 1) : ~HasComma(parts[j])

\* The notations component k may be written in: with a comma where the
\* timestamp's first comma stands in an SRT timestamp, without one elsewhere.
NumbersAt(fn, parts, k) ==
    IF fn = "parseSRTTimestamp" /\ FirstCommaIn(parts, k) THEN CommaNumbers
    ELSE PlainNumbers

IsNumberAt(fn, parts, k) == \E x \in NumbersAt(fn, parts, k) : x.text = parts[k]

ValueAt(fn, parts, k) == (CHOOSE x \in NumbersAt(fn, parts, k) : x.text = parts[k]).val

AllNumeric(fn, parts) == \A k \in DOMAIN parts : IsNumberAt(fn, parts, k)

TimestampReturned == timeCall.kind = "timestamp" /\ timeCall.pc = "returned"

\* C31: parseWebVTTTimestamp and parseSRTTimestamp return an error for a
\* timestamp that has neither two nor three components or has a component
\* that is not a number.
C31_BadTimestampFails ==
    (/\ DOMAIN timeCall # {}
     /\ TimestampReturned
     /\ Len(timeCall.parts) \notin {2, 3} \/ ~AllNumeric(timeCall.fn, timeCall.parts))
        => timeCall.ret.err # ""

TimelineReturned == timeCall.kind = "timeline" /\ timeCall.pc = "returned"

\* C32: parseWebVTTTimeline and parseSRTTimeline return an error, and no
\* times, for a line without the arrow.
C32_NoArrowFails ==
    (/\ DOMAIN timeCall # {}
     /\ TimelineReturned
     /\ timeCall.arrow \in NoArrows)
        => timeCall.ret.err # ""

\* The timestamps of the explored timelines and their values.
TimestampValues ==
    { [text |-> <<"0", "0", ":", "0", "1", ".", "0", "0", "0">>, val |-> 1000],
      [text |-> <<"0", "0", ":", "0", "0", ":", "0", "2", ".", "0", "0", "0">>, val |-> 2000],
      [text |-> <<"0", "1", ":", "0", "2", ".", "5", "0", "0">>, val |-> 62500],
      [text |-> <<"0", "0", ":", "0", "1", ",", "0", "0", "0">>, val |-> 1000],
      [text |-> <<"0", "0", ":", "0", "0", ":", "0", "2", ",", "0", "0", "0">>, val |-> 2000],
      [text |-> <<"0", "1", ":", "0", "2", ",", "5", "0", "0">>, val |-> 62500] }

TimestampValue(t) == (CHOOSE x \in TimestampValues : x.text = t).val

\* The times of the two timestamps of the timeline, without error.
TimesOfTimeline ==
    [err |-> "", start |-> TimestampValue(timeCall.parts[1]),
     end |-> TimestampValue(timeCall.parts[2])]

\* C33: parseWebVTTTimeline returns the times of the two timestamps whatever
\* cue settings follow the second one after a run of spaces or a tab: the
\* same times as for the timeline without settings.
C33_CueSettingsIgnored ==
    (/\ DOMAIN timeCall # {}
     /\ TimelineReturned
     /\ timeCall.fn = "parseWebVTTTimeline"
     /\ timeCall.arrow \in Arrows)
        => timeCall.ret = TimesOfTimeline

\* A component after the one with the first comma has a comma as well.
SecondComma(parts) ==
    \E j \in DOMAIN parts : \E k \in DOMAIN parts :
        j < k /\ HasComma(parts[j]) /\ HasComma(parts[k])

\* C34: for three numeric components parseWebVTTTimestamp and
\* parseSRTTimestamp return hours*3600 + minutes*60 + seconds, the seconds
\* with their fraction; parseSRTTimestamp reads the first comma of the
\* timestamp as the decimal point and fails on a component with a later one.
C34_HoursMinutesSeconds ==
    (DOMAIN timeCall # {} /\ TimestampReturned /\ Len(timeCall.parts) = 3) =>
        /\ AllNumeric(timeCall.fn, timeCall.parts) =>
              /\ timeCall.ret.err = ""
              /\ timeCall.ret.start =
                    3600 * ValueAt(timeCall.fn, timeCall.parts, 1)
                    + 60 * ValueAt(timeCall.fn, timeCall.parts, 2)
                    + ValueAt(timeCall.fn, timeCall.parts, 3)
        /\ (timeCall.fn = "parseSRTTimestamp" /\ SecondComma(timeCall.parts))
              => timeCall.ret.err # ""

\* parseSRTTimestamp returned 3661.5 s for "01:01:01,500".
C34_Witness ==
    /\ DOMAIN timeCall # {}
    /\ TimestampReturned
    /\ timeCall.fn = "parseSRTTimestamp"
    /\ timeCall.text = <<"0", "1", ":", "0", "1", ":", "0", "1", ",", "5", "0", "0">>
    /\ timeCall.ret = [err |-> "", start |-> 3661500, end |-> 3661500]

-----------------------------------------------------------------------------
(* Every cue of a WebVTT input becomes one caption *)

\* The lines of the input that hold the arrow.
ArrowTexts == {TextVTTShort, TextVTTSettings, TextVTTBad}

\* The first empty line after the header line, 0 when there is none.
FirstEmptyLine ==
    Least({k \in 2..Len(input) : input[k] = Line(TextBlank)})

\* The lines with the arrow read after the first empty line.
CueTimelines ==
    IF FirstEmptyLine = 0 THEN {}
    ELSE {k \in (FirstEmptyLine + 1)..Len(input) :
             input[k].kind = "line" /\ input[k].text \in ArrowTexts}

KthOf(ks, k) == CHOOSE j \in ks : Cardinality({h \in ks : h <= j}) = k

WebVTTSucceeded(st) == st.phase = "returned" /\ st.err = ""

\* C38: when parseWebVTT or parseChunkedWebVTT succeeds, it returns one
\* caption for every line with the arrow read after the first empty line that
\* follows the header, in that order and with the times of that line, whether
\* or not text lines follow it; a line with the arrow before that empty line
\* gives no caption.
C38_OneCaptionPerTimeline ==
    \A p \in WebVTTParsers :
        (DOMAIN vtt # {} /\ WebVTTSucceeded(vtt[p])) =>
            /\ Len(vtt[p].ret) = Cardinality(CueTimelines)
            /\ \A k \in DOMAIN vtt[p].ret :
                  /\ IsTimeline(WebVTTTimelines, input[KthOf(CueTimelines, k)].text)
                  /\ vtt[p].ret[k].StartTime =
                        TimesOf(WebVTTTimelines, input[KthOf(CueTimelines, k)].text).start
                  /\ vtt[p].ret[k].EndTime =
                        TimesOf(WebVTTTimelines, input[KthOf(CueTimelines, k)].text).end

\* A timeline in the preamble, then two cues without text: one completed by
\* the next timeline, one by the end of the input.
C38_Witness ==
    /\ input = <<Line(TextHeader), Line(TextVTTShort), Line(TextBlank),
                 Line(TextVTTSettings), Line(TextVTTShort), EndOfInput>>
    /\ \A p \in WebVTTParsers :
          /\ WebVTTSucceeded(vtt[p])
          /\ Len(vtt[p].ret) = 2
          /\ \A k \in 1..2 : vtt[p].ret[k].Text = <<>>
          /\ vtt[p].ret[1].StartTime = 3000
          /\ vtt[p].ret[2].StartTime = 1000

-----------------------------------------------------------------------------
(* Cues without text in an SRT input *)

\* Every caption has text, and no text line is pending while an index or a
\* timeline is expected.
TextIsKept(st) ==
    /\ \A k \in DOMAIN st.captions : st.captions[k].Text # <<>>
    /\ \A k \in DOMAIN st.ret : st.ret[k].Text # <<>>
    /\ (st.phase = "scan" /\ st.parseState \in {0, 1}) => st.textLines = <<>>

\* The lines read so far end with a block that is an index line alone, or an
\* index line and a timeline.
EndsWithEmptyBlock ==
    /\ ReadingLines
    /\ \/ /\ IsIndexLine(LastLine)
          /\ Len(input) > 1 => IsBlank(input[Len(input) - 1].text)
       \/ /\ Len(input) >= 2
          /\ LastLine \in AcceptedSRTTimelines
          /\ IsIndexLine(input[Len(input) - 1].text)
          /\ Len(input) > 2 => IsBlank(input[Len(input) - 2].text)

\* The next event read is a blank line or the end of the input.
BlockEnds ==
    /\ Len(input') = Len(input) + 1
    /\ \/ input'[Len(input')] = EndOfInput
       \/ /\ input'[Len(input')].kind = "line"
          /\ IsBlank(input'[Len(input')].text)

\* A block without text that ends adds no caption.
EmptyBlockAddsNothing ==
    (DOMAIN srt # {} /\ EndsWithEmptyBlock /\ BlockEnds) =>
        \A p \in SRTParsers :
            /\ srt'[p].captions = srt[p].captions
            /\ input'[Len(input')] = EndOfInput =>
                  (srt'[p].phase = "returned" /\ srt'[p].err = ""
                      /\ srt'[p].ret = srt[p].captions)

\* C39: every caption of parseSRT and parseChunkedSRT has a non-empty Text,
\* textLines is empty whenever an index or a timeline is expected, and a block
\* made of an index line alone, or of an index line and a timeline, adds no
\* caption when a blank line or the end of the input follows.
C39_NoCaptionWithoutText ==
    /\ [](DOMAIN srt # {} => \A p \in SRTParsers : TextIsKept(srt[p]))
    /\ [][EmptyBlockAddsNothing]_vars

\* An index line alone, and an index line with a timeline at the end of the
\* input: nothing is returned.
C39_Witness ==
    /\ input = <<Line(TextOne), Line(TextBlank), Line(TextSeven),
                 Line(TextSRTFirst), EndOfInput>>
    /\ \A p \in SRTParsers :
          /\ srt[p].phase = "returned"
          /\ srt[p].err = ""
          /\ srt[p].ret = <<>>

-----------------------------------------------------------------------------
(* Timelines that do not parse, read where no timeline is expected *)

\* The lines of the explored inputs with the arrow and timestamps that
\* parseSRTTimeline refuses.
RefusedSRTTimelines == NonNumericSRTTimelines \cup OutOfRangeSRTTimelines

\* The next event read is one of these lines.
ReadsRefusedTimeline ==
    /\ Len(input') = Len(input) + 1
    /\ input'[Len(input')].kind = "line"
    /\ input'[Len(input')].text \in RefusedSRTTimelines

KeptAsText(st, line) == [st EXCEPT !.textLines = Append(st.textLines, line)]

\* What the parser in state st is left in by such a line, where an index is
\* expected and where text is read.
RefusedTimelineRead(st, line) ==
    CASE st.parseState = 0 /\ Len(st.captions) > 0 ->
            [KeptAsText(st, line) EXCEPT !.parseState = 2]
      [] st.parseState = 0 /\ Len(st.captions) = 0 -> st
      [] st.parseState = 2 -> KeptAsText(st, line)

RefusedTimelineIsText ==
    (DOMAIN srt # {} /\ ReadsRefusedTimeline) =>
        \A p \in SRTParsers :
            (srt[p].phase = "scan" /\ srt[p].parseState \in {0, 2}) =>
                /\ srt'[p].phase = "scan"
                /\ srt'[p].err = ""
                /\ srt'[p] = RefusedTimelineRead(srt[p], input'[Len(input')].text)

\* C40: a line with the arrow whose timestamps do not parse never fails
\* parseSRT or parseChunkedSRT when it is read where an index is expected or
\* as caption text: where an index is expected it is kept as text, text being
\* read next, if a caption was already completed, and dropped with nothing
\* changed otherwise; as caption text it is appended to textLines.
C40_RefusedTimelineIsText ==
    [][RefusedTimelineIsText]_vars

\* Such a line was read as the text of the first cue, and another one after
\* the blank line: the first is the caption's text, the second is pending.
C40_Witness ==
    /\ input = <<Line(TextOne), Line(TextSRTFirst), Line(TextSRTRange),
                 Line(TextBlank), Line(TextSRTInvalid)>>
    /\ \A p \in SRTParsers :
          /\ srt[p].phase = "scan"
          /\ Len(srt[p].captions) = 1
          /\ srt[p].captions[1].Text = TextSRTRange
          /\ srt[p].textLines = <<TextSRTInvalid>>
          /\ srt[p].parseState = 2

====
